---- MODULE Spec2Model ----
(***************************************************************************)
(* Model of the kops-controller bootstrap client                           *)
(* (pkg/kopscontrollerclient/client.go): Client.dial, the DialContext      *)
(* function used when a custom resolver is bound, and                      *)
(* Client.QueryBootstrap, the bootstrap exchange.                          *)
(*                                                                         *)
(* The module also covers the IAM subjects of package iam                  *)
(* (BuildNodeRoleSubject, ServiceAccount, AddServiceAccountRole), pure     *)
(* functions applied to inputs drawn by SpecIAM.                           *)
(*                                                                         *)
(* The specifications share the definitions below.                         *)
(*   SpecDial  one invocation of Client.dial, one source line group per    *)
(*             step, the resolver and the network as the environment.      *)
(*   Spec      NCalls goroutines, each making one QueryBootstrap call on   *)
(*             the same Client; every interleaving of their steps, so      *)
(*             both overlapping and non-overlapping call sequences.        *)
(***************************************************************************)
EXTENDS Naturals, Sequences, FiniteSets, TLC

\* ------------------------------------------------------------------ bounds
\* Longest candidate list the resolver stub returns.
MaxAddrs == 3
\* Number of goroutines calling QueryBootstrap on the one Client.
NCalls == 2
\* Most containers in a pod spec handed to AddServiceAccountRole.
MaxContainers == 2

\* ------------------------------------------------------------------ values
\* An error value: what kind it is and what it is about.
Err(kind, about) == [kind |-> kind, about |-> about]
\* The nil error.
NoErr == Err("nil", "")
\* The nil net.Conn.
NoConn == "nil"

\* Addresses a resolver may hand back.
Addrs == {"a1", "a2"}
\* Candidate lists: every list of at most MaxAddrs addresses, duplicates included.
AddrLists == UNION {[1..n -> Addrs] : n \in 0..MaxAddrs}
\* What Resolver.Resolve may return: a list and nil, or nil and an error.
ResolveResults ==
    {[addrs |-> l, err |-> NoErr] : l \in AddrLists}
        \cup {[addrs |-> <<>>, err |-> Err("resolve", "gossip lookup failed")]}
\* What net.DialTimeout may do for one candidate: connect, or fail in one of two ways.
DialOutcomes == {"ok", "refused", "timeout"}
\* ctx.Err() of a cancelled context.
Canceled == Err("context canceled", "")
\* What Resolver.Resolve(ctx, host) may return: with ctx cancelled it may also give up with ctx's error.
ResolveResultsUnder(ctxDone) ==
    IF ctxDone THEN ResolveResults \cup {[addrs |-> <<>>, err |-> Canceled]} ELSE ResolveResults
\* The error net.DialTimeout returns for candidate a failing in way k.
DialErr(a, k) == Err(k, a)

\* Targets handed to dial by the transport, as token sequences ("h:443", "h", "h:x:443").
Targets == {<<"h", ":", "443">>, <<"h">>, <<"h", ":", "x", ":", "443">>}

\* ------------------------------------------------------------------ net.SplitHostPort
RECURSIVE LastColon(_, _)
\* Index of the last ":" among the first n tokens of s, 0 when there is none.
LastColon(s, n) ==
    IF n = 0 THEN 0
    ELSE IF s[n] = ":" THEN n
    ELSE LastColon(s, n - 1)

\* net.SplitHostPort on an unbracketed target: the last colon separates host and port.
SplitHostPort(s) ==
    LET i == LastColon(s, Len(s)) IN
    IF i = 0
    THEN [host |-> <<>>, port |-> <<>>, err |-> Err("split", "missing port in address")]
    ELSE IF LastColon(s, i - 1) # 0
    THEN [host |-> <<>>, port |-> <<>>, err |-> Err("split", "too many colons in address")]
    ELSE [host |-> SubSeq(s, 1, i - 1), port |-> SubSeq(s, i + 1, Len(s)), err |-> NoErr]

\* ------------------------------------------------------------------ Client.dial
\* The frame of one dial invocation before its first statement.
\*   pc        next source line group
\*   addr      the target argument
\*   host,port results of SplitHostPort
\*   addresses the resolver's answer
\*   i         1-based index of the candidate the range loop is at
\*   errors    the local 'errors' slice
\*   conn,err  the return values (meaningful when pc = "done")
\*   resolves  number of Resolver.Resolve calls made (observation)
\*   answer    what the resolver answered (observation)
\*   attempts  every net.DialTimeout call made, in order: address, its index
\*             in the candidate list, outcome, and whether ctx was already
\*             cancelled when the call was made (observation)
\*   ctxDone   the ctx argument has been cancelled
DialFrame(target) ==
    [pc |-> "L62", addr |-> target, host |-> <<>>, port |-> <<>>,
     addresses |-> <<>>, i |-> 1, errors |-> <<>>,
     conn |-> NoConn, err |-> NoErr, resolves |-> 0,
     answer |-> [addrs |-> <<>>, err |-> Err("not asked", "")], attempts |-> <<>>,
     ctxDone |-> FALSE]

\* A frame returning (conn, err).
DialReturn(f, conn, err) == [f EXCEPT !.pc = "done", !.conn = conn, !.err = err]

\* DialSplit taking a target that does not split for a bare host on port 443.
DialSplitLenient(f) ==
    LET r == SplitHostPort(f.addr) IN
    IF r.err # NoErr
    THEN [f EXCEPT !.pc = "L68", !.host = f.addr, !.port = <<"443">>]
    ELSE [f EXCEPT !.pc = "L68", !.host = r.host, !.port = r.port]

\* Lines 62-65: split the target, fail at once when it does not split.
DialSplit(f) ==
    LET r == SplitHostPort(f.addr) IN
    IF r.err # NoErr
    THEN DialReturn(f, NoConn, Err("cannot split host and port", r.err.about))
    ELSE [f EXCEPT !.pc = "L68", !.host = r.host, !.port = r.port]

\* The list s back to front.
Reverse(s) == [k \in 1..Len(s) |-> s[Len(s) + 1 - k]]

\* DialResolve trying the candidates in another order than the resolver's.
DialResolveReordered(f, res) ==
    LET g == [f EXCEPT !.resolves = @ + 1, !.answer = res] IN
    IF res.err # NoErr
    THEN DialReturn(g, NoConn, res.err)
    ELSE [g EXCEPT !.pc = "L75", !.addresses = Reverse(res.addrs), !.i = 1]

\* DialResolve wrapping the resolver's error in one of its own.
DialResolveWrapping(f, res) ==
    LET g == [f EXCEPT !.resolves = @ + 1, !.answer = res] IN
    IF res.err # NoErr
    THEN DialReturn(g, NoConn, Err("cannot resolve", res.err.kind))
    ELSE [g EXCEPT !.pc = "L75", !.addresses = res.addrs, !.i = 1]

\* Lines 68-73: ask the bound resolver; its error is returned as it is.
DialResolve(f, res) ==
    LET g == [f EXCEPT !.resolves = @ + 1, !.answer = res] IN
    IF res.err # NoErr
    THEN DialReturn(g, NoConn, res.err)
    ELSE [g EXCEPT !.pc = "L75", !.addresses = res.addrs, !.i = 1]

\* DialTry keeping the connection but going on to the next candidate.
DialTryNoBreak(f, outcome) ==
    LET a == f.addresses[f.i]
        g == [f EXCEPT !.attempts = Append(@, [addr |-> a, idx |-> f.i, outcome |-> outcome,
                                                cancelled |-> f.ctxDone])]
    IN
    IF outcome = "ok"
    THEN [g EXCEPT !.conn = a, !.i = @ + 1]
    ELSE [g EXCEPT !.errors = Append(@, DialErr(a, outcome)), !.i = @ + 1]

\* DialTry dialling a candidate that failed once more instead of moving on.
DialTryRetrying(f, outcome) ==
    LET a == f.addresses[f.i]
        g == [f EXCEPT !.attempts = Append(@, [addr |-> a, idx |-> f.i, outcome |-> outcome,
                                                cancelled |-> f.ctxDone])]
    IN
    IF outcome = "ok"
    THEN DialReturn(g, a, NoErr)
    ELSE [g EXCEPT !.errors = Append(@, DialErr(a, outcome))]

\* Lines 75-85: one iteration of the range loop, the network answering 'outcome'.
DialTry(f, outcome) ==
    LET a == f.addresses[f.i]
        g == [f EXCEPT !.attempts = Append(@, [addr |-> a, idx |-> f.i, outcome |-> outcome,
                                                cancelled |-> f.ctxDone])]
    IN
    IF outcome = "ok"
    THEN DialReturn(g, a, NoErr)
    ELSE [g EXCEPT !.errors = Append(@, DialErr(a, outcome)), !.i = @ + 1]

\* DialFail returning the last candidate's error.
DialFailLast(f) ==
    IF Len(f.errors) = 0
    THEN DialReturn(f, NoConn, Err("no addresses", "for target"))
    ELSE DialReturn(f, NoConn, f.errors[Len(f.errors)])

\* DialFail keeping only a last-error variable, which is nil when nothing was dialled.
DialFailNilWhenEmpty(f) ==
    IF Len(f.errors) = 0
    THEN DialReturn(f, NoConn, NoErr)
    ELSE DialReturn(f, NoConn, f.errors[1])

\* Lines 86-89: the loop is over and nothing connected.
DialFail(f) ==
    IF Len(f.errors) = 0
    THEN DialReturn(f, NoConn, Err("no addresses", "for target"))
    ELSE DialReturn(f, NoConn, f.errors[1])

\* Runs the range loop of lines 75-89 to its return, outs[i] being the network's
\* answer for candidate i.
RECURSIVE DialLoop(_, _)
DialLoop(f, outs) ==
    IF f.pc # "L75" THEN f
    ELSE IF f.i > Len(f.addresses) THEN DialFail(f)
    ELSE DialLoop(DialTry(f, outs[f.i]), outs)

\* One whole dial invocation (lines 59-90) against a resolver answering res and
\* a network answering outs.
DialRun(target, res, outs) ==
    LET f1 == DialSplit(DialFrame(target)) IN
    IF f1.pc = "done" THEN f1
    ELSE DialLoop(DialResolve(f1, res), outs)

\* ------------------------------------------------------------------ Client fields
\* b.Resolver unset.
NilResolver == "nil"
\* b.Resolver set to a custom (gossip) resolver.
CustomResolver == "custom"
\* Values of b.BaseURL: a usable endpoint with a base path, and one whose host
\* does not survive URL parsing.
BaseURLs ==
    {[Host |-> "kops-controller.internal", Path |-> <<"v1">>],
     [Host |-> "bad host", Path |-> <<>>]}
\* Certificate authorities: the one in b.CAs and a foreign one.
ClusterCA == "cluster-ca"
ForeignCA == "foreign-ca"

\* ------------------------------------------------------------------ pre-flight DNS
\* Longest address list net.LookupIP answers with.
MaxIPs == 2
\* cloudup.PlaceholderIP and cloudup.PlaceholderIPv6 (upup/pkg/fi/cloudup), compared at line 124.
PlaceholderIP == "203.0.113.123"
PlaceholderIPv6 == "fd00:dead:add::"

\* net.IP values: IPv4 as four bytes, IPv6 as eight hextets in lower-case hex.
IPs == {<<203, 0, 113, 123>>, <<10, 0, 0, 1>>,
        <<"fd00", "dead", "add", "0", "0", "0", "0", "0">>}

RECURSIVE ZeroRun(_, _)
\* Length of the run of zero hextets of ip starting at position k.
ZeroRun(ip, k) ==
    IF k > Len(ip) THEN 0
    ELSE IF ip[k] # "0" THEN 0
    ELSE 1 + ZeroRun(ip, k + 1)

RECURSIVE JoinHextets(_, _, _)
\* Hextets a..b of ip separated by colons.
JoinHextets(ip, a, b) ==
    IF a > b THEN ""
    ELSE IF a = b THEN ip[a]
    ELSE ip[a] \o ":" \o JoinHextets(ip, a + 1, b)

\* net.IP.String(): dotted decimal for IPv4; for IPv6 the hextets with the
\* first longest run of two or more zero hextets written "::".
IPString(ip) ==
    IF Len(ip) = 4
    THEN ToString(ip[1]) \o "." \o ToString(ip[2]) \o "." \o ToString(ip[3])
             \o "." \o ToString(ip[4])
    ELSE LET best == CHOOSE k \in 1..Len(ip) :
                        /\ \A j \in 1..Len(ip) : ZeroRun(ip, j) <= ZeroRun(ip, k)
                        /\ \A j \in 1..(k - 1) : ZeroRun(ip, j) < ZeroRun(ip, k)
             n == ZeroRun(ip, best)
         IN IF n < 2 THEN JoinHextets(ip, 1, Len(ip))
            ELSE JoinHextets(ip, 1, best - 1) \o "::" \o JoinHextets(ip, best + n, Len(ip))

\* Address lists net.LookupIP may answer with: at most MaxIPs addresses, each once.
IPLists ==
    UNION {{l \in [1..n -> IPs] : \A i, j \in 1..n : l[i] = l[j] => i = j} : n \in 1..MaxIPs}
\* Errors net.LookupIP may return: a *net.DNSError with IsNotFound set, a
\* *net.DNSError without it, and an error of another type.
DNSNotFound == Err("DNSError", "IsNotFound")
DNSTimeout == Err("DNSError", "IsTimeout")
DNSOther == Err("AddrError", "bad host name")
\* What net.LookupIP may return.
LookupResults ==
    {[ips |-> l, err |-> NoErr] : l \in IPLists}
        \cup {[ips |-> <<>>, err |-> e] : e \in {DNSNotFound, DNSTimeout, DNSOther}}
\* The value standing for "net.LookupIP was not called".
NoLookup == [ips |-> <<>>, err |-> Err("not asked", "")]

\* fi.NewTryAgainLaterError(msg).
TryAgainLaterError(msg) == Err("TryAgainLaterError", msg)

\* SkipsDNS never skipping: the lookup is made with a resolver bound too.
SkipsDNSNever(resolver) == FALSE

\* Line 117: with a custom resolver the DNS sanity check is not made.
SkipsDNS(resolver) == resolver # NilResolver

\* DNSVerdict treating every DNS error as "not set up yet".
DNSVerdictAnyErrorNotReady(lookup) ==
    IF lookup.err # NoErr
    THEN TryAgainLaterError("kops-controller DNS not setup yet (not found)")
    ELSE IF /\ Len(lookup.ips) = 1
            /\ \/ IPString(lookup.ips[1]) = PlaceholderIP
               \/ IPString(lookup.ips[1]) = PlaceholderIPv6
    THEN TryAgainLaterError("kops-controller DNS not setup yet (placeholder IP found)")
    ELSE NoErr

\* DNSVerdict returning the DNS error for "not found" as for any other error.
DNSVerdictNotFoundHard(lookup) ==
    IF lookup.err # NoErr
    THEN lookup.err
    ELSE IF /\ Len(lookup.ips) = 1
            /\ \/ IPString(lookup.ips[1]) = PlaceholderIP
               \/ IPString(lookup.ips[1]) = PlaceholderIPv6
    THEN TryAgainLaterError("kops-controller DNS not setup yet (placeholder IP found)")
    ELSE NoErr

\* DNSVerdict knowing the IPv4 placeholder only.
DNSVerdictIPv4Only(lookup) ==
    IF lookup.err # NoErr
    THEN IF lookup.err.kind = "DNSError" /\ lookup.err.about = "IsNotFound"
         THEN TryAgainLaterError("kops-controller DNS not setup yet (not found)")
         ELSE lookup.err
    ELSE IF Len(lookup.ips) = 1 /\ IPString(lookup.ips[1]) = PlaceholderIP
    THEN TryAgainLaterError("kops-controller DNS not setup yet (placeholder IP found)")
    ELSE NoErr

\* DNSVerdict finding "not set up yet" when any address of the answer is a placeholder.
DNSVerdictAnyPlaceholder(lookup) ==
    IF lookup.err # NoErr
    THEN IF lookup.err.kind = "DNSError" /\ lookup.err.about = "IsNotFound"
         THEN TryAgainLaterError("kops-controller DNS not setup yet (not found)")
         ELSE lookup.err
    ELSE IF \E k \in 1..Len(lookup.ips) :
               \/ IPString(lookup.ips[k]) = PlaceholderIP
               \/ IPString(lookup.ips[k]) = PlaceholderIPv6
    THEN TryAgainLaterError("kops-controller DNS not setup yet (placeholder IP found)")
    ELSE NoErr

\* Lines 119-126: what the sanity check makes of net.LookupIP's answer: the
\* error QueryBootstrap returns, or nil to go on.
DNSVerdict(lookup) ==
    IF lookup.err # NoErr
    THEN IF lookup.err.kind = "DNSError" /\ lookup.err.about = "IsNotFound"
         THEN TryAgainLaterError("kops-controller DNS not setup yet (not found)")
         ELSE lookup.err
    ELSE IF /\ Len(lookup.ips) = 1
            /\ \/ IPString(lookup.ips[1]) = PlaceholderIP
               \/ IPString(lookup.ips[1]) = PlaceholderIPv6
    THEN TryAgainLaterError("kops-controller DNS not setup yet (placeholder IP found)")
    ELSE NoErr

\* ------------------------------------------------------------------ JSON
\* A request whose encoding json.Marshal refuses.
Unencodable == "unencodable"
\* Bootstrap requests, by node name.
Requests == {"n1", Unencodable}

\* json.Marshal of a bootstrap request: the object's tokens, or an error.
Marshal(req) ==
    IF req = Unencodable
    THEN [bytes |-> <<>>, err |-> Err("json.UnsupportedValueError", "marshal")]
    ELSE [bytes |-> <<"{", "nodeName", req, "}">>, err |-> NoErr]

\* The nil *nodeup.BootstrapResponse.
NilResp == [nil |-> TRUE, status |-> ""]
\* A decoded bootstrap response.
Resp(status) == [nil |-> FALSE, status |-> status]

\* Unmarshal losing the value of the field it decodes.
UnmarshalDropsField(body) ==
    IF body = <<"{", "}">>
    THEN [resp |-> Resp(""), err |-> NoErr]
    ELSE IF Len(body) = 4 /\ body[1] = "{" /\ body[2] = "status" /\ body[4] = "}"
    THEN [resp |-> Resp(""), err |-> NoErr]
    ELSE [resp |-> NilResp, err |-> Err("json.SyntaxError", "unmarshal")]

\* json.Unmarshal into a bootstrap response: an object with at most the one
\* known field decodes, anything else is a syntax error.
Unmarshal(body) ==
    IF body = <<"{", "}">>
    THEN [resp |-> Resp(""), err |-> NoErr]
    ELSE IF Len(body) = 4 /\ body[1] = "{" /\ body[2] = "status" /\ body[4] = "}"
    THEN [resp |-> Resp(body[3]), err |-> NoErr]
    ELSE [resp |-> NilResp, err |-> Err("json.SyntaxError", "unmarshal")]

\* ------------------------------------------------------------------ HTTP
\* http.StatusOK.
StatusOK == 200
\* Client.Timeout of the http.Client, in seconds.
ClientTimeoutSeconds == 15

\* The transport's dial function when DialContext is left unset.
DefaultDial == "net.Dialer"
\* The transport's dial function when DialContext is b.dial.
CustomDial == "b.dial"

\* Lines 94-111: the http.Client built from the client's CAs and resolver.
NewHTTPClient(cas, resolver) ==
    [RootCAs |-> {cas}, MinVersion |-> "TLS1.2",
     DialContext |-> IF resolver # NilResolver THEN CustomDial ELSE DefaultDial,
     Timeout |-> ClientTimeoutSeconds]

RECURSIVE Clean(_)
\* path.Clean on a list of segments: empty and "." segments dropped.
Clean(p) ==
    IF p = <<>> THEN <<>>
    ELSE IF Head(p) = "" \/ Head(p) = "." THEN Clean(Tail(p))
    ELSE <<Head(p)>> \o Clean(Tail(p))

\* path.Join(a, b) on segment lists.
PathJoin(a, b) == Clean(a \o b)

\* url.Parse of the URL's string form fails for a host with a space in it.
ValidHost(h) == h # "bad host"

\* The nil *http.Request.
NoRequest ==
    [Method |-> "", Host |-> "", Path |-> <<>>, ContentType |-> "",
     Authorization |-> <<>>, Body |-> <<>>]

\* Lines 133-139: the POST request for <BaseURL>/bootstrap with body reqBytes.
NewRequest(url, reqBytes) ==
    [Method |-> "POST", Host |-> url.Host, Path |-> PathJoin(url.Path, <<"", "bootstrap">>),
     ContentType |-> "application/json", Authorization |-> <<>>, Body |-> reqBytes]

\* SetAuthorization putting a scheme in front of the token.
SetAuthorizationBearer(httpReq, token) ==
    [httpReq EXCEPT !.Authorization = <<"Bearer">> \o token]

\* Line 145: httpReq.Header.Set("Authorization", token).
SetAuthorization(httpReq, token) == [httpReq EXCEPT !.Authorization = token]

\* The token a working authenticator issues for the bytes it is given.
TokenFor(bytes) == <<"signed">> \o bytes
\* The error of an authenticator that cannot issue a token.
AuthError == Err("authenticator", "cannot create token")
\* What Authenticator.CreateToken may do.
AuthOutcomes == {"ok", "error"}

\* Response bodies, as tokens; "\n" is a line break, "\r" a carriage return.
GoodBody == <<"{", "status", "ok", "}">>
\* A stretch of body text of bufio.MaxScanTokenSize (64 KiB) or more with no line break in it.
Oversized == "<64 KiB of text>"
\* What reading resp.Body to its end may yield.
Bodies ==
    {GoodBody,
     <<"<html>">>,
     <<"service unavailable", "\n", "extra">>,
     <<>>,
     <<"bad gateway", "\r", "\n", "extra">>,
     <<Oversized, "\n", "extra">>}
\* HTTP responses as httpClient.Do hands them back: the status line and headers
\* are in, Body holds what has been read of the body stream, nothing yet.
Responses == {[StatusCode |-> s, Body |-> <<>>] : s \in {StatusOK, 201, 503}}
\* The response resp with its body stream read, yielding body.
ReadBody(resp, body) == [resp EXCEPT !.Body = body]
\* The value of 'resp' before httpClient.Do returned one.
NoResponse == [StatusCode |-> 0, Body |-> <<>>]

\* Index of the first line break of body, Len(body) + 1 when it has none.
NewlineAt(body) ==
    IF \E k \in 1..Len(body) : body[k] = "\n"
    THEN CHOOSE k \in 1..Len(body) :
            body[k] = "\n" /\ \A j \in 1..(k - 1) : body[j] # "\n"
    ELSE Len(body) + 1

\* bufio's dropCR: the line without one trailing carriage return.
DropCR(line) ==
    IF line # <<>> /\ line[Len(line)] = "\r" THEN SubSeq(line, 1, Len(line) - 1) ELSE line

RECURSIVE Concat(_)
\* The text of a token list.
Concat(line) == IF line = <<>> THEN "" ELSE Head(line) \o Concat(Tail(line))

\* FirstLine keeping the carriage return of a CRLF line end.
FirstLineKeepsCR(body) ==
    LET line == SubSeq(body, 1, NewlineAt(body) - 1) IN
    IF \E k \in 1..Len(line) : line[k] = Oversized THEN ""
    ELSE Concat(line)

\* Lines 158-161: bufio.Scanner's first line (bufio.ScanLines): the text before
\* the first line break, or all of it when there is none, without a trailing
\* carriage return; "" when Scan reports no token, which is the case for an
\* empty body and for a line beyond the scanner's buffer limit.
FirstLine(body) ==
    LET line == SubSeq(body, 1, NewlineAt(body) - 1) IN
    IF \E k \in 1..Len(line) : line[k] = Oversized THEN ""
    ELSE Concat(DropCR(line))

\* StatusError classifying a bad status as "try again later".
StatusErrorRetryable(resp) ==
    TryAgainLaterError("bootstrap returned status code " \o ToString(resp.StatusCode))

\* Lines 155-164: the error for a response whose status is not 200.
StatusError(resp) ==
    Err("bootstrap returned status code " \o ToString(resp.StatusCode), FirstLine(resp.Body))

\* The *url.Error http.Client.Do wraps a transport failure in.
URLError(e) == Err("url.Error: " \o e.kind, e.about)

\* ------------------------------------------------------------------ package iam
\* A nil pointer to a scalar.
Nil == "nil"
\* A nil pointer to a struct, and what stands where nothing was passed or returned.
None == [nil |-> TRUE]
\* The instance-group roles BuildNodeRoleSubject knows.
InstanceGroupRoleControlPlane == "ControlPlane"
InstanceGroupRoleAPIServer == "APIServer"
InstanceGroupRoleNode == "Node"
InstanceGroupRoleBastion == "Bastion"
\* Values of a kops.InstanceGroupRole, a string type: the four above, the
\* empty string and other strings.
InstanceGroupRoles ==
    {InstanceGroupRoleControlPlane, InstanceGroupRoleAPIServer, InstanceGroupRoleNode,
     InstanceGroupRoleBastion, "", "Master", "node"}

\* types.NamespacedName, and its zero value.
NamespacedName(namespace, name) == [Namespace |-> namespace, Name |-> name]
EmptyNamespacedName == NamespacedName("", "")

\* The implementations of Subject.
NodeRoleMaster == [kind |-> "NodeRoleMaster"]
NodeRoleAPIServer(warmPool) == [kind |-> "NodeRoleAPIServer", warmPool |-> warmPool]
NodeRoleNode(enableLifecycleHookPermissions) ==
    [kind |-> "NodeRoleNode", enableLifecycleHookPermissions |-> enableLifecycleHookPermissions]
NodeRoleBastion == [kind |-> "NodeRoleBastion"]
GenericServiceAccount(namespacedName) ==
    [kind |-> "GenericServiceAccount", NamespacedName |-> namespacedName]
\* The nil Subject.
NilSubject == [kind |-> "nil"]
\* The subjects a caller may hold.
Subjects ==
    {NodeRoleMaster, NodeRoleBastion}
        \cup {NodeRoleAPIServer(b) : b \in BOOLEAN}
        \cup {NodeRoleNode(b) : b \in BOOLEAN}
        \cup {GenericServiceAccount(n) :
                n \in {NamespacedName("kube-system", "dns-controller"),
                       NamespacedName("default", "app"), EmptyNamespacedName}}

\* Lines 42-45, 52-55, 62-65, 70-73 and 80-82: the ServiceAccount methods.
ServiceAccount(s) ==
    CASE s.kind = "NodeRoleMaster" -> [name |-> EmptyNamespacedName, ok |-> FALSE]
      [] s.kind = "NodeRoleAPIServer" -> [name |-> EmptyNamespacedName, ok |-> FALSE]
      [] s.kind = "NodeRoleNode" -> [name |-> EmptyNamespacedName, ok |-> FALSE]
      [] s.kind = "NodeRoleBastion" -> [name |-> EmptyNamespacedName, ok |-> FALSE]
      [] s.kind = "GenericServiceAccount" -> [name |-> s.NamespacedName, ok |-> TRUE]

\* BuildNodeRoleSubject without the case of bastions.
BuildNodeRoleSubjectNoBastion(igRole, enableLifecycleHookPermissions) ==
    CASE igRole = InstanceGroupRoleControlPlane ->
            [subject |-> NodeRoleMaster, err |-> NoErr]
      [] igRole = InstanceGroupRoleAPIServer ->
            [subject |-> NodeRoleAPIServer(enableLifecycleHookPermissions), err |-> NoErr]
      [] igRole = InstanceGroupRoleNode ->
            [subject |-> NodeRoleNode(enableLifecycleHookPermissions), err |-> NoErr]
      [] OTHER ->
            [subject |-> NilSubject, err |-> Err("unknown instancegroup role", igRole)]

\* Lines 88-106.
BuildNodeRoleSubject(igRole, enableLifecycleHookPermissions) ==
    CASE igRole = InstanceGroupRoleControlPlane ->
            [subject |-> NodeRoleMaster, err |-> NoErr]
      [] igRole = InstanceGroupRoleAPIServer ->
            [subject |-> NodeRoleAPIServer(enableLifecycleHookPermissions), err |-> NoErr]
      [] igRole = InstanceGroupRoleNode ->
            [subject |-> NodeRoleNode(enableLifecycleHookPermissions), err |-> NoErr]
      [] igRole = InstanceGroupRoleBastion ->
            [subject |-> NodeRoleBastion, err |-> NoErr]
      [] OTHER ->
            [subject |-> NilSubject, err |-> Err("unknown instancegroup role", igRole)]

\* kops.CloudProviderAWS, and the values GetCloudProvider may return.
CloudProviderAWS == "aws"
CloudProviders == {CloudProviderAWS, "gce", "openstack", ""}
\* What context.IAMNameForServiceAccountRole (line 121) may return for a
\* subject: a role name and nil, or an error.
IAMNameResults ==
    {[name |-> "dns-controller.kube-system.sa.c.example.com", err |-> NoErr],
     [name |-> "", err |-> Err("IAMNameForServiceAccountRole", "no name for the role")]}
\* An IAMModelContext: the cluster's cloud provider, the AWS partition and
\* account, and the answer IAMNameForServiceAccountRole gives.
IAMModelContexts ==
    [cloudProvider : CloudProviders, AWSPartition : {"aws", "aws-cn"},
     AWSAccountID : {"123456789012"}, roleName : IAMNameResults]

\* wellknownusers.Generic, and a group a pod spec may already carry.
Generic == "wellknownusers.Generic"
FSGroups == {Generic, "2000"}
\* Values of podSpec.SecurityContext: nil, or a context whose FSGroup is nil or set.
PodSecurityContext(fsGroup) == [nil |-> FALSE, FSGroup |-> fsGroup]
SecurityContexts == {None} \cup {PodSecurityContext(g) : g \in {Nil} \cup FSGroups}
\* A container of a pod spec, with the mounts and the environment it has.
Container(name, volumeMounts, env) == [Name |-> name, VolumeMounts |-> volumeMounts, Env |-> env]
ContainerChoices ==
    {Container("main", <<>>, <<>>),
     Container("sidecar", <<[MountPath |-> "/data", Name |-> "data", ReadOnly |-> FALSE]>>,
               <<[Name |-> "AWS_REGION", Value |-> "us-east-1"]>>)}
\* The pod specs handed in: up to MaxContainers containers, with or without
\* a volume of their own.
PodSpecs ==
    [Volumes : {<<>>, <<[Name |-> "data", Projected |-> None]>>},
     Containers : UNION {[1..n -> ContainerChoices] : n \in 0..MaxContainers},
     SecurityContext : SecurityContexts]

\* Lines 134-135.
TokenMode == 420
TokenExpirationSeconds == 86400

\* Lines 130-147: the projected service-account token volume.
TokenVolume(tokenName) ==
    [Name |-> "token-amazonaws-com",
     Projected |-> [DefaultMode |-> TokenMode,
                    Sources |-> <<[ServiceAccountToken |->
                                     [Audience |-> "amazonaws.com",
                                      ExpirationSeconds |-> TokenExpirationSeconds,
                                      Path |-> tokenName]]>>]]

\* Lines 151-169: one iteration of the loop over the containers.
AddTokenToContainer(container, volume, awsRoleARN, tokenDir, tokenName) ==
    [container EXCEPT
        !.VolumeMounts = Append(@, [MountPath |-> tokenDir, Name |-> volume.Name, ReadOnly |-> TRUE]),
        !.Env = Append(Append(@, [Name |-> "AWS_ROLE_ARN", Value |-> awsRoleARN]),
                       [Name |-> "AWS_WEB_IDENTITY_TOKEN_FILE", Value |-> tokenDir \o tokenName])]

\* addServiceAccountRoleForAWS setting fsGroup whatever the pod spec had.
addServiceAccountRoleForAWSOverwriting(context, podSpec, serviceAccountRole) ==
    IF context.roleName.err # NoErr
    THEN [podSpec |-> podSpec, err |-> context.roleName.err]
    ELSE LET awsRoleARN == "arn:" \o context.AWSPartition \o ":iam::" \o context.AWSAccountID
                               \o ":role/" \o context.roleName.name
             tokenDir == "/var/run/secrets/amazonaws.com/"
             tokenName == "token"
             volume == TokenVolume(tokenName)
         IN [podSpec |->
                [Volumes |-> Append(podSpec.Volumes, volume),
                 Containers |-> [k \in 1..Len(podSpec.Containers) |->
                                    AddTokenToContainer(podSpec.Containers[k], volume,
                                                        awsRoleARN, tokenDir, tokenName)],
                 SecurityContext |-> PodSecurityContext(Generic)],
             err |-> NoErr]

\* Lines 120-182.
addServiceAccountRoleForAWS(context, podSpec, serviceAccountRole) ==
    IF context.roleName.err # NoErr
    THEN [podSpec |-> podSpec, err |-> context.roleName.err]
    ELSE LET awsRoleARN == "arn:" \o context.AWSPartition \o ":iam::" \o context.AWSAccountID
                               \o ":role/" \o context.roleName.name
             tokenDir == "/var/run/secrets/amazonaws.com/"
             tokenName == "token"
             volume == TokenVolume(tokenName)
             securityContext ==
                 IF podSpec.SecurityContext.nil THEN PodSecurityContext(Nil)
                 ELSE podSpec.SecurityContext
         IN [podSpec |->
                [Volumes |-> Append(podSpec.Volumes, volume),
                 Containers |-> [k \in 1..Len(podSpec.Containers) |->
                                    AddTokenToContainer(podSpec.Containers[k], volume,
                                                        awsRoleARN, tokenDir, tokenName)],
                 SecurityContext |->
                    IF securityContext.FSGroup = Nil
                    THEN [securityContext EXCEPT !.FSGroup = Generic]
                    ELSE securityContext],
             err |-> NoErr]

\* Lines 108-118.
AddServiceAccountRole(context, podSpec, serviceAccountRole) ==
    IF context.cloudProvider = CloudProviderAWS
    THEN addServiceAccountRoleForAWS(context, podSpec, serviceAccountRole)
    ELSE [podSpec |-> podSpec,
          err |-> Err("ServiceAccount-level IAM is not yet supported on cloud", context.cloudProvider)]

\* One call of a function of package iam: the function, its arguments, and,
\* once it has returned, its results.
IAMCall(fn, args) == [pc |-> "call", fn |-> fn, args |-> args, results |-> None]
\* No such call.
NoIAM == [pc |-> "idle", fn |-> "", args |-> None, results |-> None]

\* ------------------------------------------------------------------ state
VARIABLES
    Resolver,    \* b.Resolver
    CAs,         \* b.CAs
    BaseURL,     \* b.BaseURL
    httpClient,  \* b.httpClient: 0 for nil, else an index into clients
    clients,     \* every http.Client constructed so far, in construction order
    frames,      \* per goroutine, the frame of its QueryBootstrap call
    event,       \* what the latest step did with the outside world, and what it returned
    log,         \* per goroutine, the calls its QueryBootstrap made to the outside world
    dialer,      \* the frame of the dial invocation in progress (SpecDial)
    iam          \* the call of a function of package iam (SpecIAM)

vars == <<Resolver, CAs, BaseURL, httpClient, clients, frames, event, log, dialer, iam>>

\* The goroutines calling QueryBootstrap.
Calls == 1..NCalls

\* A QueryBootstrap frame outside a call: before it, and after its return.
\*   pc          next source line group ("idle", "L93" .. "L166", "done", "panic")
\*   req         the request argument
\*   httpClient  the local 'httpClient' of lines 108-113
\*   httpReq     the local 'httpReq'
\*   reqBytes    the local 'reqBytes'
\*   resp        the local 'resp'
\*   ctxDone     the ctx argument has been cancelled
\*   deferClose  resp.Body.Close() is deferred to the return (lines 151-153)
Frame(pc) ==
    [pc |-> pc, req |-> "", httpClient |-> 0, reqBytes |-> <<>>,
     httpReq |-> NoRequest, resp |-> NoResponse, ctxDone |-> FALSE, deferClose |-> FALSE]

\* The record of a step: the operation, the goroutine, whether the call
\* returned in this step and with what, whether net.LookupIP was called and
\* its answer, which http.Client a submission went through and how it dialled,
\* the HTTP response the step received or worked on, and whether the body of
\* that response was closed in this step.
Event(op, c) ==
    [op |-> op, call |-> c, returned |-> FALSE, resp |-> NilResp, err |-> NoErr,
     looked |-> FALSE, lookup |-> NoLookup, client |-> 0, via |-> "none",
     response |-> NoResponse, closed |-> FALSE]

\* DeferClose deferring the Close for a 200 response only.
DeferCloseOnOK(resp) == resp # NoResponse /\ resp.StatusCode = StatusOK

\* Lines 151-153: if resp.Body != nil { defer resp.Body.Close() }. The Body of
\* a response http.Client.Do returned is never nil.
DeferClose(resp) == resp # NoResponse

\* The deferred call of frame f, if any, runs as the function returns in step e.
RunDeferred(f, e) == [e EXCEPT !.closed = f.deferClose]

\* The record of a step in which the call returned (resp, err).
Returning(e, resp, err) == [e EXCEPT !.returned = TRUE, !.resp = resp, !.err = err]

\* An entry of the log: the cancellation of the call's ctx ("ctx.Done"), or
\* a call of net.LookupIP, of Authenticator.CreateToken
\* (the bytes it was given and the token it returned, none when it failed) or of http.Client.Do
\* (the http.Client it was called on, the body and the Authorization header
\* of the request it was given).
Logged(op, client, bytes, token) ==
    [op |-> op, client |-> client, bytes |-> bytes, token |-> token]

\* A dial frame when no dial is in progress.
NoDial == [DialFrame(<<>>) EXCEPT !.pc = "idle"]

\* The Client as constructed by its user: Resolver set or not, httpClient nil.
Init ==
    /\ Resolver \in {NilResolver, CustomResolver}
    /\ CAs = ClusterCA
    /\ BaseURL \in BaseURLs
    /\ httpClient = 0
    /\ clients = <<>>
    /\ frames = [c \in Calls |-> Frame("idle")]
    /\ event = Event("new", 0)
    /\ log = [c \in Calls |-> <<>>]
    /\ dialer = NoDial
    /\ iam = NoIAM

\* ------------------------------------------------------------------ QueryBootstrap
\* Goroutine c calls b.QueryBootstrap(ctx, req).
Call(c) ==
    /\ frames[c].pc = "idle"
    /\ \E req \in Requests :
          frames' = [frames EXCEPT ![c] = [Frame("L93") EXCEPT !.req = req]]
    /\ event' = Event("call", c)
    /\ UNCHANGED <<Resolver, CAs, BaseURL, httpClient, clients, log, dialer, iam>>

\* CheckClient building a new http.Client on every call.
CheckClientRebuild(c) ==
    /\ frames[c].pc = "L93"
    /\ frames' = [frames EXCEPT ![c].pc = "L94"]
    /\ event' = Event("check", c)
    /\ UNCHANGED <<Resolver, CAs, BaseURL, httpClient, clients, log, dialer, iam>>

\* CheckClient taking the DNS sanity check for part of the first-use set-up.
CheckClientSkipsSanity(c) ==
    /\ frames[c].pc = "L93"
    /\ frames' = [frames EXCEPT ![c].pc = IF httpClient = 0 THEN "L94" ELSE "L128"]
    /\ event' = Event("check", c)
    /\ UNCHANGED <<Resolver, CAs, BaseURL, httpClient, clients, log, dialer, iam>>

\* Line 93: if b.httpClient == nil.
CheckClient(c) ==
    /\ frames[c].pc = "L93"
    /\ frames' = [frames EXCEPT ![c].pc = IF httpClient = 0 THEN "L94" ELSE "L117"]
    /\ event' = Event("check", c)
    /\ UNCHANGED <<Resolver, CAs, BaseURL, httpClient, clients, log, dialer, iam>>

\* Lines 94-111: build the certificate pool, the transport and the http.Client.
BuildClient(c) ==
    /\ frames[c].pc = "L94"
    /\ clients' = Append(clients, NewHTTPClient(CAs, Resolver))
    /\ frames' = [frames EXCEPT ![c].pc = "L113", ![c].httpClient = Len(clients) + 1]
    /\ event' = Event("build", c)
    /\ UNCHANGED <<Resolver, CAs, BaseURL, httpClient, log, dialer, iam>>

\* StoreClient keeping the http.Client it built in its local variable only.
StoreClientLocalOnly(c) ==
    /\ frames[c].pc = "L113"
    /\ httpClient' = httpClient
    /\ frames' = [frames EXCEPT ![c].pc = "L117"]
    /\ event' = Event("store", c)
    /\ UNCHANGED <<Resolver, CAs, BaseURL, clients, log, dialer, iam>>

\* Line 113: b.httpClient = httpClient.
StoreClient(c) ==
    /\ frames[c].pc = "L113"
    /\ httpClient' = frames[c].httpClient
    /\ frames' = [frames EXCEPT ![c].pc = "L117", ![c].httpClient = 0]
    /\ event' = Event("store", c)
    /\ UNCHANGED <<Resolver, CAs, BaseURL, clients, log, dialer, iam>>

\* SanityCheck going on to build the request whatever the lookup said.
SanityCheckAdvisory(c) ==
    /\ frames[c].pc = "L117"
    /\ IF SkipsDNS(Resolver)
       THEN /\ frames' = [frames EXCEPT ![c].pc = "L128"]
            /\ event' = Event("sanity", c)
            /\ log' = log
       ELSE \E lookup \in LookupResults :
               /\ log' = [log EXCEPT ![c] = Append(@, Logged("LookupIP", 0, <<>>, <<>>))]
               /\ frames' = [frames EXCEPT ![c].pc = "L128"]
               /\ event' = [Event("sanity", c) EXCEPT !.looked = TRUE, !.lookup = lookup]
    /\ UNCHANGED <<Resolver, CAs, BaseURL, httpClient, clients, dialer, iam>>

\* Lines 116-126: the DNS sanity check, skipped with a custom resolver.
SanityCheck(c) ==
    /\ frames[c].pc = "L117"
    /\ IF SkipsDNS(Resolver)
       THEN /\ frames' = [frames EXCEPT ![c].pc = "L128"]
            /\ event' = Event("sanity", c)
            /\ log' = log
       ELSE \E lookup \in LookupResults :
               LET e == [Event("sanity", c) EXCEPT !.looked = TRUE, !.lookup = lookup]
                   err == DNSVerdict(lookup)
               IN /\ log' = [log EXCEPT ![c] = Append(@, Logged("LookupIP", 0, <<>>, <<>>))]
                  /\ IF err # NoErr
                     THEN /\ frames' = [frames EXCEPT ![c] = Frame("done")]
                          /\ event' = Returning(e, NilResp, err)
                     ELSE /\ frames' = [frames EXCEPT ![c].pc = "L128"]
                          /\ event' = e
    /\ UNCHANGED <<Resolver, CAs, BaseURL, httpClient, clients, dialer, iam>>

\* BuildRequest joining "/bootstrap" onto the path of b.BaseURL itself.
BuildRequestInPlace(c) ==
    /\ frames[c].pc = "L128"
    /\ LET m == Marshal(frames[c].req)
           joined == [BaseURL EXCEPT !.Path = PathJoin(@, <<"", "bootstrap">>)]
       IN
       IF m.err # NoErr
       THEN /\ frames' = [frames EXCEPT ![c] = Frame("done")]
            /\ event' = Returning(Event("marshal", c), NilResp, m.err)
            /\ BaseURL' = BaseURL
       ELSE IF ~ValidHost(BaseURL.Host)
       THEN /\ frames' = [frames EXCEPT ![c] = Frame("done")]
            /\ event' = Returning(Event("newrequest", c), NilResp,
                                  Err("url.Error: parse", "invalid URL"))
            /\ BaseURL' = joined
       ELSE /\ frames' = [frames EXCEPT ![c].pc = "L141", ![c].reqBytes = m.bytes,
                                        ![c].httpReq = [NewRequest(BaseURL, m.bytes)
                                                           EXCEPT !.Path = joined.Path]]
            /\ event' = Event("newrequest", c)
            /\ BaseURL' = joined
    /\ UNCHANGED <<Resolver, CAs, httpClient, clients, log, dialer, iam>>

\* BuildRequest going straight on to the submission, with no token asked for.
BuildRequestSkipsAuth(c) ==
    /\ frames[c].pc = "L128"
    /\ LET m == Marshal(frames[c].req) IN
       IF m.err # NoErr
       THEN /\ frames' = [frames EXCEPT ![c] = Frame("done")]
            /\ event' = Returning(Event("marshal", c), NilResp, m.err)
       ELSE IF ~ValidHost(BaseURL.Host)
       THEN /\ frames' = [frames EXCEPT ![c] = Frame("done")]
            /\ event' = Returning(Event("newrequest", c), NilResp,
                                  Err("url.Error: parse", "invalid URL"))
       ELSE /\ frames' = [frames EXCEPT ![c].pc = "L147", ![c].reqBytes = m.bytes,
                                        ![c].httpReq = NewRequest(BaseURL, m.bytes)]
            /\ event' = Event("newrequest", c)
    /\ UNCHANGED <<Resolver, CAs, BaseURL, httpClient, clients, log, dialer, iam>>

\* Lines 128-139: serialize the request and build the POST for <BaseURL>/bootstrap.
BuildRequest(c) ==
    /\ frames[c].pc = "L128"
    /\ LET m == Marshal(frames[c].req) IN
       IF m.err # NoErr
       THEN /\ frames' = [frames EXCEPT ![c] = Frame("done")]
            /\ event' = Returning(Event("marshal", c), NilResp, m.err)
       ELSE IF ~ValidHost(BaseURL.Host)
       THEN /\ frames' = [frames EXCEPT ![c] = Frame("done")]
            /\ event' = Returning(Event("newrequest", c), NilResp,
                                  Err("url.Error: parse", "invalid URL"))
       ELSE /\ frames' = [frames EXCEPT ![c].pc = "L141", ![c].reqBytes = m.bytes,
                                        ![c].httpReq = NewRequest(BaseURL, m.bytes)]
            /\ event' = Event("newrequest", c)
    /\ UNCHANGED <<Resolver, CAs, BaseURL, httpClient, clients, log, dialer, iam>>

\* Authenticate dropping the error of CreateToken and going on without a token.
AuthenticateIgnoringError(c) ==
    /\ frames[c].pc = "L141"
    /\ \E o \in AuthOutcomes :
          LET token == IF o = "error" THEN <<>> ELSE TokenFor(frames[c].reqBytes) IN
          /\ frames' = [frames EXCEPT ![c].pc = "L147",
                                      ![c].httpReq = SetAuthorization(@, token)]
          /\ event' = Event("token", c)
          /\ log' = [log EXCEPT ![c] =
                        Append(@, Logged("CreateToken", 0, frames[c].reqBytes, token))]
    /\ UNCHANGED <<Resolver, CAs, BaseURL, httpClient, clients, dialer, iam>>

\* Lines 141-145: have the authenticator sign the serialized bytes.
Authenticate(c) ==
    /\ frames[c].pc = "L141"
    /\ \E o \in AuthOutcomes :
          IF o = "error"
          THEN /\ frames' = [frames EXCEPT ![c] = Frame("done")]
               /\ event' = Returning(Event("token", c), NilResp,
                                     AuthError)
               /\ log' = [log EXCEPT ![c] =
                             Append(@, Logged("CreateToken", 0, frames[c].reqBytes, <<>>))]
          ELSE LET token == TokenFor(frames[c].reqBytes) IN
               /\ frames' = [frames EXCEPT ![c].pc = "L147",
                                           ![c].httpReq = SetAuthorization(@, token)]
               /\ event' = Event("token", c)
               /\ log' = [log EXCEPT ![c] =
                             Append(@, Logged("CreateToken", 0, frames[c].reqBytes, token))]
    /\ UNCHANGED <<Resolver, CAs, BaseURL, httpClient, clients, dialer, iam>>

\* Every error b.dial may return for a target, nil (a connection) included:
\* its result over every answer of the resolver and of the network.
DialErrors(target) ==
    {DialRun(target, res, outs).err :
        res \in ResolveResults, outs \in [1..MaxAddrs -> DialOutcomes]}

\* DialErrors for the endpoints of the model, by host (port 443, as for https).
EndpointDialErrors == [h \in {u.Host : u \in BaseURLs} |-> DialErrors(<<h, ":", "443">>)]

\* What establishing a connection through http.Client cl may come to: the
\* error, or nil for a connection. With DialContext set it is b.dial's result,
\* otherwise the system dialer's.
ConnectErrors(cl, host) ==
    IF cl.DialContext = CustomDial
    THEN EndpointDialErrors[host]
    ELSE {NoErr} \cup {DialErr(host, k) : k \in DialOutcomes \ {"ok"}}

\* What the exchange over an established connection may come to: a response,
\* or an error, a TLS failure being possible only against a server whose
\* certificate no CA of the pool signed.
ExchangeResults(cl) ==
    {[resp |-> r, err |-> NoErr] : r \in Responses}
        \cup {[resp |-> NoResponse, err |-> Err("timeout", "Client.Timeout exceeded")]}
        \cup {[resp |-> NoResponse, err |-> Err("tls", "certificate signed by unknown authority")] :
                 ca \in {ClusterCA, ForeignCA} \ cl.RootCAs}

\* Submit throwing the http.Client away when the submission fails.
SubmitResetsClientOnError(c) ==
    /\ frames[c].pc = "L147"
    /\ IF httpClient = 0
       THEN /\ frames' = [frames EXCEPT ![c] = Frame("panic")]
            /\ event' = Event("nil dereference", c)
            /\ log' = log
            /\ httpClient' = httpClient
       ELSE LET cl == clients[httpClient]
                e == [Event("do", c) EXCEPT !.client = httpClient, !.via = cl.DialContext]
            IN /\ log' = [log EXCEPT ![c] = Append(@, Logged("Do", httpClient, frames[c].httpReq.Body,
                                                        frames[c].httpReq.Authorization))]
               /\ IF frames[c].ctxDone
                  THEN /\ frames' = [frames EXCEPT ![c] = Frame("done")]
                       /\ event' = Returning(e, NilResp, URLError(Canceled))
                       /\ httpClient' = httpClient
                  ELSE IF cl.DialContext = CustomDial /\ Resolver = NilResolver
                  THEN /\ frames' = [frames EXCEPT ![c] = Frame("panic")]
                       /\ event' = [e EXCEPT !.op = "nil dereference"]
                       /\ httpClient' = httpClient
                  ELSE \E derr \in ConnectErrors(cl, frames[c].httpReq.Host) :
                          IF derr # NoErr
                          THEN /\ frames' = [frames EXCEPT ![c] = Frame("done")]
                               /\ event' = Returning(e, NilResp, URLError(derr))
                               /\ httpClient' = 0
                          ELSE \E x \in ExchangeResults(cl) :
                                  IF x.err # NoErr
                                  THEN /\ frames' = [frames EXCEPT ![c] = Frame("done")]
                                       /\ event' = Returning(e, NilResp, URLError(x.err))
                                       /\ httpClient' = 0
                                  ELSE /\ frames' = [frames EXCEPT ![c].pc = "L155", ![c].resp = x.resp,
                                                                ![c].deferClose = DeferClose(x.resp)]
                                       /\ event' = [e EXCEPT !.response = x.resp]
                                       /\ httpClient' = httpClient
    /\ UNCHANGED <<Resolver, CAs, BaseURL, clients, dialer, iam>>

\* Submit trying again when no connection could be established.
SubmitRetrying(c) ==
    /\ frames[c].pc = "L147"
    /\ IF httpClient = 0
       THEN /\ frames' = [frames EXCEPT ![c] = Frame("panic")]
            /\ event' = Event("nil dereference", c)
            /\ log' = log
       ELSE LET cl == clients[httpClient]
                e == [Event("do", c) EXCEPT !.client = httpClient, !.via = cl.DialContext]
            IN /\ log' = [log EXCEPT ![c] = Append(@, Logged("Do", httpClient, frames[c].httpReq.Body,
                                                        frames[c].httpReq.Authorization))]
               /\ IF frames[c].ctxDone
                  THEN /\ frames' = [frames EXCEPT ![c] = Frame("done")]
                       /\ event' = Returning(e, NilResp, URLError(Canceled))
                  ELSE IF cl.DialContext = CustomDial /\ Resolver = NilResolver
                  THEN /\ frames' = [frames EXCEPT ![c] = Frame("panic")]
                       /\ event' = [e EXCEPT !.op = "nil dereference"]
                  ELSE \E derr \in ConnectErrors(cl, frames[c].httpReq.Host) :
                          IF derr # NoErr
                          THEN /\ frames' = frames
                               /\ event' = e
                          ELSE \E x \in ExchangeResults(cl) :
                                  IF x.err # NoErr
                                  THEN /\ frames' = [frames EXCEPT ![c] = Frame("done")]
                                       /\ event' = Returning(e, NilResp, URLError(x.err))
                                  ELSE /\ frames' = [frames EXCEPT ![c].pc = "L155", ![c].resp = x.resp,
                                                                ![c].deferClose = DeferClose(x.resp)]
                                       /\ event' = [e EXCEPT !.response = x.resp]
    /\ UNCHANGED <<Resolver, CAs, BaseURL, httpClient, clients, dialer, iam>>

\* Lines 147-153: b.httpClient.Do(httpReq). A ctx already cancelled makes Do
\* return ctx's error; a transport built with DialContext = b.dial calls
\* b.Resolver.Resolve (line 68), which is a nil dereference when b.Resolver is nil.
Submit(c) ==
    /\ frames[c].pc = "L147"
    /\ IF httpClient = 0
       THEN /\ frames' = [frames EXCEPT ![c] = Frame("panic")]
            /\ event' = Event("nil dereference", c)
            /\ log' = log
       ELSE LET cl == clients[httpClient]
                e == [Event("do", c) EXCEPT !.client = httpClient, !.via = cl.DialContext]
            IN /\ log' = [log EXCEPT ![c] = Append(@, Logged("Do", httpClient, frames[c].httpReq.Body,
                                                        frames[c].httpReq.Authorization))]
               /\ IF frames[c].ctxDone
                  THEN /\ frames' = [frames EXCEPT ![c] = Frame("done")]
                       /\ event' = Returning(e, NilResp, URLError(Canceled))
                  ELSE IF cl.DialContext = CustomDial /\ Resolver = NilResolver
                  THEN /\ frames' = [frames EXCEPT ![c] = Frame("panic")]
                       /\ event' = [e EXCEPT !.op = "nil dereference"]
                  ELSE \E derr \in ConnectErrors(cl, frames[c].httpReq.Host) :
                          IF derr # NoErr
                          THEN /\ frames' = [frames EXCEPT ![c] = Frame("done")]
                               /\ event' = Returning(e, NilResp, URLError(derr))
                          ELSE \E x \in ExchangeResults(cl) :
                                  IF x.err # NoErr
                                  THEN /\ frames' = [frames EXCEPT ![c] = Frame("done")]
                                       /\ event' = Returning(e, NilResp, URLError(x.err))
                                  ELSE /\ frames' = [frames EXCEPT ![c].pc = "L155", ![c].resp = x.resp,
                                                                ![c].deferClose = DeferClose(x.resp)]
                                       /\ event' = [e EXCEPT !.response = x.resp]
    /\ UNCHANGED <<Resolver, CAs, BaseURL, httpClient, clients, dialer, iam>>

\* CheckStatus letting every 2xx status through to decoding.
CheckStatusAny2xx(c) ==
    /\ frames[c].pc = "L155"
    /\ IF frames[c].resp.StatusCode < 200 \/ frames[c].resp.StatusCode > 299
       THEN \E body \in Bodies :
               LET r == ReadBody(frames[c].resp, body) IN
               /\ frames' = [frames EXCEPT ![c] = Frame("done")]
               /\ event' = Returning(RunDeferred(frames[c], [Event("status", c) EXCEPT !.response = r]),
                                     NilResp, StatusError(r))
       ELSE /\ frames' = [frames EXCEPT ![c].pc = "L166"]
            /\ event' = [Event("status", c) EXCEPT !.response = frames[c].resp]
    /\ UNCHANGED <<Resolver, CAs, BaseURL, httpClient, clients, log, dialer, iam>>

\* Lines 155-164: a status other than 200 ends the call with the first line
\* scanned from the body.
CheckStatus(c) ==
    /\ frames[c].pc = "L155"
    /\ IF frames[c].resp.StatusCode # StatusOK
       THEN \E body \in Bodies :
               LET r == ReadBody(frames[c].resp, body) IN
               /\ frames' = [frames EXCEPT ![c] = Frame("done")]
               /\ event' = Returning(RunDeferred(frames[c], [Event("status", c) EXCEPT !.response = r]),
                                     NilResp, StatusError(r))
       ELSE /\ frames' = [frames EXCEPT ![c].pc = "L166"]
            /\ event' = [Event("status", c) EXCEPT !.response = frames[c].resp]
    /\ UNCHANGED <<Resolver, CAs, BaseURL, httpClient, clients, log, dialer, iam>>

\* Decode handing out the half-filled response along with a decoding error.
DecodeReturnsBoth(c) ==
    /\ frames[c].pc = "L166"
    /\ \/ /\ frames' = [frames EXCEPT ![c] = Frame("done")]
          /\ event' = Returning(RunDeferred(frames[c], [Event("read", c) EXCEPT !.response = frames[c].resp]),
                                NilResp, Err("read", "unexpected EOF"))
       \/ \E body \in Bodies :
             LET r == ReadBody(frames[c].resp, body)
                 u == Unmarshal(body)
                 e == RunDeferred(frames[c], [Event("decode", c) EXCEPT !.response = r])
             IN
             /\ frames' = [frames EXCEPT ![c] = Frame("done")]
             /\ event' = IF u.err # NoErr
                         THEN Returning(e, Resp(""), u.err)
                         ELSE Returning(e, u.resp, NoErr)
    /\ UNCHANGED <<Resolver, CAs, BaseURL, httpClient, clients, log, dialer, iam>>

\* Decode reporting a body that does not decode as a failed exchange.
DecodeAsTransportError(c) ==
    /\ frames[c].pc = "L166"
    /\ \/ /\ frames' = [frames EXCEPT ![c] = Frame("done")]
          /\ event' = Returning(RunDeferred(frames[c], [Event("read", c) EXCEPT !.response = frames[c].resp]),
                                NilResp, Err("read", "unexpected EOF"))
       \/ \E body \in Bodies :
             LET r == ReadBody(frames[c].resp, body)
                 u == Unmarshal(body)
                 e == RunDeferred(frames[c], [Event("decode", c) EXCEPT !.response = r])
             IN
             /\ frames' = [frames EXCEPT ![c] = Frame("done")]
             /\ event' = IF u.err # NoErr
                         THEN Returning(e, NilResp, URLError(Err("timeout", "Client.Timeout exceeded")))
                         ELSE Returning(e, u.resp, NoErr)
    /\ UNCHANGED <<Resolver, CAs, BaseURL, httpClient, clients, log, dialer, iam>>

\* Lines 166-177: read the whole body, which may fail, and decode it.
Decode(c) ==
    /\ frames[c].pc = "L166"
    /\ \/ /\ frames' = [frames EXCEPT ![c] = Frame("done")]
          /\ event' = Returning(RunDeferred(frames[c], [Event("read", c) EXCEPT !.response = frames[c].resp]),
                                NilResp, Err("read", "unexpected EOF"))
       \/ \E body \in Bodies :
             LET r == ReadBody(frames[c].resp, body)
                 u == Unmarshal(body)
                 e == RunDeferred(frames[c], [Event("decode", c) EXCEPT !.response = r])
             IN
             /\ frames' = [frames EXCEPT ![c] = Frame("done")]
             /\ event' = IF u.err # NoErr
                         THEN Returning(e, NilResp, u.err)
                         ELSE Returning(e, u.resp, NoErr)
    /\ UNCHANGED <<Resolver, CAs, BaseURL, httpClient, clients, log, dialer, iam>>

Next ==
    \E c \in Calls :
        \/ Call(c)
        \/ CheckClient(c)
        \/ BuildClient(c)
        \/ StoreClient(c)
        \/ SanityCheck(c)
        \/ BuildRequest(c)
        \/ Authenticate(c)
        \/ Submit(c)
        \/ CheckStatus(c)
        \/ Decode(c)

Spec == Init /\ [][Next]_vars

\* ------------------------------------------------------------------ SpecSeq
\* One caller using the Client: calls do not overlap, and between calls the
\* caller may assign the exported CAs field.

\* No QueryBootstrap call is in progress.
Quiescent == \A c \in Calls : frames[c].pc \in {"idle", "done", "panic"}

\* A call made when the previous one has returned.
CallAlone(c) == Quiescent /\ Call(c)

\* The caller assigns another value to b.CAs between two calls.
SetCAs ==
    /\ Quiescent
    /\ \E ca \in {ClusterCA, ForeignCA} \ {CAs} : CAs' = ca
    /\ event' = Event("set CAs", 0)
    /\ UNCHANGED <<Resolver, BaseURL, httpClient, clients, frames, log, dialer, iam>>

SeqNext ==
    \/ SetCAs
    \/ \E c \in Calls :
          \/ CallAlone(c)
          \/ CheckClient(c)
          \/ BuildClient(c)
          \/ StoreClient(c)
          \/ SanityCheck(c)
          \/ BuildRequest(c)
          \/ Authenticate(c)
          \/ Submit(c)
          \/ CheckStatus(c)
          \/ Decode(c)

SpecSeq == Init /\ [][SeqNext]_vars

\* ------------------------------------------------------------------ SpecCancel
\* One caller whose calls do not overlap and who may cancel the ctx of the
\* call in progress.

\* The ctx of goroutine c's call is cancelled before http.Client.Do has
\* returned. (Later cancellations only make the reads of the body fail, which
\* they may do in any case.)
Cancel(c) ==
    /\ frames[c].pc \in {"L93", "L94", "L113", "L117", "L128", "L141", "L147"}
    /\ ~frames[c].ctxDone
    /\ frames' = [frames EXCEPT ![c].ctxDone = TRUE]
    /\ log' = [log EXCEPT ![c] = Append(@, Logged("ctx.Done", 0, <<>>, <<>>))]
    /\ event' = Event("cancel", c)
    /\ UNCHANGED <<Resolver, CAs, BaseURL, httpClient, clients, dialer, iam>>

CancelNext ==
    \E c \in Calls :
        \/ CallAlone(c)
        \/ Cancel(c)
        \/ CheckClient(c)
        \/ BuildClient(c)
        \/ StoreClient(c)
        \/ SanityCheck(c)
        \/ BuildRequest(c)
        \/ Authenticate(c)
        \/ Submit(c)
        \/ CheckStatus(c)
        \/ Decode(c)

SpecCancel == Init /\ [][CancelNext]_vars

\* ------------------------------------------------------------------ SpecRebind
\* One caller whose calls do not overlap and who may assign the exported
\* Resolver field between calls.

\* The caller sets or clears b.Resolver between two calls.
SetResolver ==
    /\ Quiescent
    /\ \E r \in {NilResolver, CustomResolver} \ {Resolver} : Resolver' = r
    /\ event' = Event("set Resolver", 0)
    /\ UNCHANGED <<CAs, BaseURL, httpClient, clients, frames, log, dialer, iam>>

RebindNext ==
    \/ SetResolver
    \/ \E c \in Calls :
          \/ CallAlone(c)
          \/ CheckClient(c)
          \/ BuildClient(c)
          \/ StoreClient(c)
          \/ SanityCheck(c)
          \/ BuildRequest(c)
          \/ Authenticate(c)
          \/ Submit(c)
          \/ CheckStatus(c)
          \/ Decode(c)

SpecRebind == Init /\ [][RebindNext]_vars

\* ------------------------------------------------------------------ SpecDial
\* The transport of a Client with a bound resolver invokes b.dial with some target.
DialInit ==
    /\ Resolver = CustomResolver
    /\ CAs = ClusterCA
    /\ BaseURL \in {u \in BaseURLs : ValidHost(u.Host)}
    /\ httpClient = 1
    /\ clients = <<NewHTTPClient(CAs, Resolver)>>
    /\ frames = [c \in Calls |-> Frame("idle")]
    /\ event = Event("new", 0)
    /\ log = [c \in Calls |-> <<>>]
    /\ dialer \in {DialFrame(t) : t \in Targets}
    /\ iam = NoIAM

\* What a dial step leaves alone.
DialUnchanged == UNCHANGED <<Resolver, CAs, BaseURL, httpClient, clients, frames, event, log, iam>>

\* dial, lines 62-65.
StepSplit ==
    /\ dialer.pc = "L62"
    /\ dialer' = DialSplit(dialer)
    /\ DialUnchanged

\* dial, lines 68-73.
StepResolve ==
    /\ dialer.pc = "L68"
    /\ \E res \in ResolveResultsUnder(dialer.ctxDone) : dialer' = DialResolve(dialer, res)
    /\ DialUnchanged

\* dial, lines 75-85, one candidate.
StepTry ==
    /\ dialer.pc = "L75"
    /\ dialer.i <= Len(dialer.addresses)
    /\ \E o \in DialOutcomes : dialer' = DialTry(dialer, o)
    /\ DialUnchanged

\* dial, lines 86-89.
StepFail ==
    /\ dialer.pc = "L75"
    /\ dialer.i > Len(dialer.addresses)
    /\ dialer' = DialFail(dialer)
    /\ DialUnchanged

\* The caller, or the request's overall timeout, cancels the ctx handed to a
\* dial invocation that has not returned yet; a call of net.DialTimeout (line 77)
\* under way is not given ctx and goes on to its own outcome.
StepCancel ==
    /\ dialer.pc # "done"
    /\ ~dialer.ctxDone
    /\ dialer' = [dialer EXCEPT !.ctxDone = TRUE]
    /\ DialUnchanged

DialNext == StepSplit \/ StepResolve \/ StepTry \/ StepFail \/ StepCancel

SpecDial == DialInit /\ [][DialNext]_vars

\* dial is straight-line code around one range loop (lines 59-90): the goroutine
\* running it takes each of its steps once the call it waits on has ended.
\* Resolver.Resolve answers, and net.DialTimeout (line 77) ends within its 5
\* seconds by connecting or by failing. Nothing obliges the ctx to be cancelled.
SpecDialFair ==
    /\ SpecDial
    /\ WF_vars(StepSplit)
    /\ WF_vars(StepResolve)
    /\ WF_vars(StepTry)
    /\ WF_vars(StepFail)

\* ------------------------------------------------------------------ SpecIAM
\* One call of BuildNodeRoleSubject, of a subject's ServiceAccount or of
\* AddServiceAccountRole, on arguments of the caller's choice. No Client is
\* involved.
IAMInit ==
    /\ Resolver = NilResolver
    /\ CAs = ClusterCA
    /\ BaseURL \in {u \in BaseURLs : ValidHost(u.Host)}
    /\ httpClient = 0
    /\ clients = <<>>
    /\ frames = [c \in Calls |-> Frame("idle")]
    /\ event = Event("new", 0)
    /\ log = [c \in Calls |-> <<>>]
    /\ dialer = NoDial
    /\ iam \in {IAMCall("BuildNodeRoleSubject", a) :
                    a \in [igRole : InstanceGroupRoles, enableLifecycleHookPermissions : BOOLEAN]}
               \cup {IAMCall("ServiceAccount", a) : a \in [subject : Subjects]}
               \cup {IAMCall("AddServiceAccountRole", a) :
                        a \in [context : IAMModelContexts, podSpec : PodSpecs,
                               serviceAccountRole : Subjects]}

\* What a call of package iam leaves alone.
IAMUnchanged ==
    UNCHANGED <<Resolver, CAs, BaseURL, httpClient, clients, frames, event, log, dialer>>

\* The call returns what the function computes from args.
IAMReturn(results) == iam' = [iam EXCEPT !.pc = "done", !.results = results]

CallBuildNodeRoleSubject ==
    /\ iam.pc = "call"
    /\ iam.fn = "BuildNodeRoleSubject"
    /\ IAMReturn(BuildNodeRoleSubject(iam.args.igRole, iam.args.enableLifecycleHookPermissions))
    /\ IAMUnchanged

CallServiceAccount ==
    /\ iam.pc = "call"
    /\ iam.fn = "ServiceAccount"
    /\ IAMReturn(ServiceAccount(iam.args.subject))
    /\ IAMUnchanged

CallAddServiceAccountRole ==
    /\ iam.pc = "call"
    /\ iam.fn = "AddServiceAccountRole"
    /\ IAMReturn(AddServiceAccountRole(iam.args.context, iam.args.podSpec,
                                       iam.args.serviceAccountRole))
    /\ IAMUnchanged

IAMNext == CallBuildNodeRoleSubject \/ CallServiceAccount \/ CallAddServiceAccountRole

SpecIAM == IAMInit /\ [][IAMNext]_vars

\* ------------------------------------------------------------------ claims, dialer
\* The dial invocation has returned.
DialDone == dialer.pc = "done"
\* Every dial attempt made so far failed.
AllAttemptsFailed == \A k \in 1..Len(dialer.attempts) : dialer.attempts[k].outcome # "ok"
\* The resolver answered with a list and no error.
Resolved == dialer.answer.err = NoErr

\* C1: when the resolver returned a non-empty candidate list and the dial to
\* every candidate failed, dial returns no connection and the error of the
\* first candidate attempted, whatever the later candidates' errors were.
C1_FirstErrorReturned ==
    (DialDone /\ Resolved /\ Len(dialer.answer.addrs) > 0 /\ AllAttemptsFailed)
        => /\ dialer.conn = NoConn
           /\ Len(dialer.attempts) = Len(dialer.answer.addrs)
           /\ dialer.err = DialErr(dialer.answer.addrs[1], dialer.attempts[1].outcome)

\* C1 witness: three candidates all failed, the first and the last differently.
C1_Witness ==
    /\ DialDone /\ Resolved /\ AllAttemptsFailed
    /\ Len(dialer.answer.addrs) = 3
    /\ Len(dialer.attempts) = 3
    /\ DialErr(dialer.attempts[1].addr, dialer.attempts[1].outcome)
          # DialErr(dialer.attempts[3].addr, dialer.attempts[3].outcome)
    /\ dialer.err = DialErr(dialer.attempts[1].addr, dialer.attempts[1].outcome)

\* C2: when the resolver succeeds with an empty candidate list, dial returns
\* the "no addresses" error (not nil), no connection, and has dialled nothing.
C2_NoAddresses ==
    (DialDone /\ Resolved /\ Len(dialer.answer.addrs) = 0)
        => /\ dialer.err.kind = "no addresses"
           /\ dialer.err # NoErr
           /\ dialer.conn = NoConn
           /\ dialer.attempts = <<>>

\* C2 witness: a returned invocation whose resolver answered the empty list.
C2_Witness ==
    /\ DialDone /\ Resolved /\ dialer.resolves = 1
    /\ dialer.answer.addrs = <<>>
    /\ dialer.err.kind = "no addresses"

\* C3: a successful dial attempt is the last one made: the invocation has
\* returned that candidate's connection with a nil error, whatever errors the
\* earlier candidates produced, and no later candidate is attempted.
C3_FirstSuccessReturned ==
    \A k \in 1..Len(dialer.attempts) :
        dialer.attempts[k].outcome = "ok"
            => /\ k = Len(dialer.attempts)
               /\ DialDone
               /\ dialer.conn = dialer.attempts[k].addr
               /\ dialer.err = NoErr

\* C3 witness: the second of three candidates connected after the first failed.
C3_Witness ==
    /\ DialDone
    /\ Len(dialer.answer.addrs) = 3
    /\ Len(dialer.attempts) = 2
    /\ Len(dialer.errors) = 1
    /\ dialer.attempts[2].outcome = "ok"
    /\ dialer.conn = dialer.answer.addrs[2]
    /\ dialer.err = NoErr

\* C4: the k-th dial attempt of an invocation is on the k-th candidate of the
\* resolver's answer, every attempt before the latest one failed, and there
\* are never more attempts than candidates (so none is attempted twice).
C4_ResolverOrder ==
    /\ Len(dialer.attempts) <= Len(dialer.answer.addrs)
    /\ \A k \in 1..Len(dialer.attempts) :
           /\ dialer.attempts[k].idx = k
           /\ dialer.attempts[k].addr = dialer.answer.addrs[k]
           /\ k < Len(dialer.attempts) => dialer.attempts[k].outcome # "ok"

\* C4 witness: three distinct-order candidates attempted one after the other.
C4_Witness ==
    /\ Len(dialer.attempts) = 3
    /\ dialer.answer.addrs[1] # dialer.answer.addrs[2]
    /\ dialer.attempts[1].addr = dialer.answer.addrs[1]
    /\ dialer.attempts[2].addr = dialer.answer.addrs[2]
    /\ dialer.attempts[3].addr = dialer.answer.addrs[3]

\* ------------------------------------------------------------------ claims, pre-flight
\* The latest step was the sanity check of some call and it called net.LookupIP.
LookedUp == event.op = "sanity" /\ event.looked
\* The latest step ended its call with a not-ready (try again later) error and no response.
ReturnedNotReady ==
    /\ event.returned
    /\ event.err.kind = "TryAgainLaterError"
    /\ event.resp = NilResp
    /\ frames[event.call].pc = "done"
\* The two placeholder addresses as net.IP values.
PlaceholderAddrs == {<<203, 0, 113, 123>>, <<"fd00", "dead", "add", "0", "0", "0", "0", "0">>}
\* net.LookupIP answered with exactly one address, a placeholder.
SinglePlaceholder ==
    /\ event.lookup.err = NoErr
    /\ Len(event.lookup.ips) = 1
    /\ event.lookup.ips[1] \in PlaceholderAddrs

\* C5: with a resolver bound to the client, no step of any call makes the
\* pre-flight net.LookupIP, and no call returns from the sanity check.
C5_ResolverSkipsDNS ==
    Resolver # NilResolver
        => /\ ~event.looked
           /\ ~(event.op = "sanity" /\ event.returned)

\* C5 witness: with a resolver bound, a call passed the sanity check without
\* a lookup while the client built by an earlier call was already stored.
C5_Witness ==
    /\ Resolver = CustomResolver
    /\ event.op = "sanity"
    /\ ~event.looked
    /\ frames[event.call].pc = "L128"
    /\ httpClient # 0
    /\ \E d \in Calls : d # event.call /\ frames[d].pc = "done"

\* C6: with no resolver bound, a pre-flight lookup answering "not found" ends
\* the call with a not-ready error and no response.
C6_NotFoundIsNotReady ==
    (LookedUp /\ Resolver = NilResolver /\ event.lookup.err = DNSNotFound)
        => ReturnedNotReady

\* C6 witness: a sanity check whose lookup answered "not found" has returned.
C6_Witness ==
    /\ LookedUp
    /\ Resolver = NilResolver
    /\ event.lookup.err = DNSNotFound
    /\ event.returned

\* C7: with no resolver bound, a pre-flight lookup answering exactly one
\* address that is the IPv4 or the IPv6 placeholder ends the call with a
\* not-ready error.
C7_PlaceholderIsNotReady ==
    (LookedUp /\ Resolver = NilResolver /\ SinglePlaceholder)
        => ReturnedNotReady

\* C7 witness: the lookup answered the IPv6 placeholder alone and the call returned.
C7_Witness ==
    /\ LookedUp
    /\ Resolver = NilResolver
    /\ event.lookup.ips = <<<<"fd00", "dead", "add", "0", "0", "0", "0", "0">>>>
    /\ event.returned

\* C8: with no resolver bound, a pre-flight lookup failing with anything but
\* "not found" ends the call with that very error, which is not a not-ready
\* error, and no response.
C8_OtherDNSErrorIsHard ==
    (LookedUp /\ Resolver = NilResolver
        /\ event.lookup.err # NoErr /\ event.lookup.err # DNSNotFound)
        => /\ event.returned
           /\ event.err = event.lookup.err
           /\ event.err.kind # "TryAgainLaterError"
           /\ event.resp = NilResp
           /\ frames[event.call].pc = "done"

\* C8 witness: the lookup failed with a DNS timeout and the call returned.
C8_Witness ==
    /\ LookedUp
    /\ Resolver = NilResolver
    /\ event.lookup.err = DNSTimeout
    /\ event.returned

\* C9: a call returning from a stage of QueryBootstrap's own (every stage but
\* the authenticator's and the transport's, whose errors are passed on)
\* returns a not-ready error exactly when no resolver is bound and the
\* pre-flight lookup answered "not found" or a single placeholder address.
C9_NotReadyOnlyFromPreflight ==
    (event.returned /\ event.op \notin {"token", "do"})
        => ((event.err.kind = "TryAgainLaterError")
               <=> /\ LookedUp
                   /\ Resolver = NilResolver
                   /\ (event.lookup.err = DNSNotFound \/ SinglePlaceholder))

\* C9 witness: with no resolver bound (so the lookup was made and passed), a
\* call failed on a status other than 200 with an error that is not not-ready.
C9_Witness ==
    /\ Resolver = NilResolver
    /\ event.returned
    /\ event.op = "status"
    /\ event.err # NoErr
    /\ event.err.kind # "TryAgainLaterError"

\* ------------------------------------------------------------------ claims, transport
\* C10: however the calls interleave, the http.Client is constructed at most
\* once, and exactly once by the time a call is past line 113.
C10_ConstructedOnce ==
    /\ Len(clients) <= 1
    /\ (\E c \in Calls : frames[c].pc \notin {"idle", "L93", "L94"}) => Len(clients) = 1

\* The http.Clients goroutine c has submitted a request through so far.
SubmittedThrough(c) == {log[c][k].client : k \in {j \in 1..Len(log[c]) : log[c][j].op = "Do"}}

\* C11: however the calls race on first use, no two submissions of the same
\* Client go through different http.Client (transport) instances.
C11_SameTransport ==
    \A c, d \in Calls : \A x \in SubmittedThrough(c) : \A y \in SubmittedThrough(d) : x = y

\* C12: when calls do not overlap, the http.Client is built once, by the
\* first call, from the CAs the Client holds then; after that no step builds
\* another, stores another, unsets b.httpClient or alters the one built,
\* whatever the calls return and whatever is assigned to b.CAs.
C12_BuiltOnceNeverReplaced ==
    [][/\ Len(clients') <= 1
       /\ (Len(clients) = 0 /\ Len(clients') = 1) => clients'[1].RootCAs = {CAs}
       /\ Len(clients) = 1 => clients' = clients
       /\ httpClient # 0 => httpClient' = httpClient
       /\ httpClient' # 0 => httpClient' = 1
       /\ event'.op = "do" => event'.client = 1]_vars

\* C12 witness: after an earlier call returned and b.CAs was assigned another
\* value, a later call submitted through the http.Client built first, whose
\* pool still holds the CA of the first call.
C12_Witness ==
    /\ event.op = "do"
    /\ event.client = 1
    /\ Len(clients) = 1
    /\ clients[1].RootCAs # {CAs}
    /\ \E d \in Calls : d # event.call /\ frames[d].pc = "done" /\ log[d] # <<>>

\* ------------------------------------------------------------------ claims, request
\* The positions of goroutine c's log holding a call of op.
LoggedAt(c, op) == {k \in 1..Len(log[c]) : log[c][k].op = op}

\* C13: every request handed to http.Client.Do follows, in the same call, a
\* CreateToken call that was given exactly the bytes of the request's body and
\* returned exactly the value of the request's Authorization header.
C13_SignedBytesAreBody ==
    \A c \in Calls : \A k \in LoggedAt(c, "Do") :
        \E j \in LoggedAt(c, "CreateToken") :
            /\ j < k
            /\ log[c][j].bytes = log[c][k].bytes
            /\ log[c][j].token = log[c][k].token
            /\ log[c][k].bytes # <<>>
            /\ log[c][k].token # <<>>

\* C13 witness: a call has submitted the request for node n1, signed.
C13_Witness ==
    \E c \in Calls : \E k \in LoggedAt(c, "Do") :
        /\ log[c][k].bytes = <<"{", "nodeName", "n1", "}">>
        /\ log[c][k].token = TokenFor(log[c][k].bytes)

\* Goroutine c's call of CreateToken at position j of its log failed.
TokenFailed(c, j) == log[c][j].op = "CreateToken" /\ log[c][j].token = <<>>

\* C14: a call whose CreateToken failed has returned, with the
\* authenticator's error and no response, and CreateToken was the last thing
\* it did: it never called http.Client.Do (so nothing was resolved or dialled
\* for it).
C14_AuthFailureEndsCall ==
    \A c \in Calls : \A j \in 1..Len(log[c]) :
        TokenFailed(c, j)
            => /\ frames[c].pc = "done"
               /\ j = Len(log[c])
               /\ LoggedAt(c, "Do") = {}
               /\ (event.op = "token" /\ event.call = c)
                     => /\ event.returned
                        /\ event.err = AuthError
                        /\ event.resp = NilResp
                        /\ event.client = 0
                        /\ event.via = "none"

\* C14 witness: the latest step was a CreateToken that failed.
C14_Witness ==
    /\ event.op = "token"
    /\ event.returned
    /\ TokenFailed(event.call, Len(log[event.call]))

\* ------------------------------------------------------------------ claims, response
\* The latest step was the status check of a response whose status is not 200.
BadStatus == event.op = "status" /\ event.response.StatusCode # 200

\* C15: a response with any status but 200, other 2xx included, ends the call
\* with no bootstrap response and an error carrying that status code; only
\* responses with status 200 get to the decoding of lines 166-177.
C15_Non200Fails ==
    /\ BadStatus
          => /\ event.returned
             /\ event.resp = NilResp
             /\ event.err.kind
                   = "bootstrap returned status code " \o ToString(event.response.StatusCode)
             /\ frames[event.call].pc = "done"
    /\ \A c \in Calls : frames[c].pc = "L166" => frames[c].resp.StatusCode = 200
    /\ event.op \in {"read", "decode"} => event.response.StatusCode = 200

\* C15 witness: a response with status 201 and a well-formed body ended its call.
C15_Witness ==
    /\ BadStatus
    /\ event.response.StatusCode = 201
    /\ event.response.Body = GoodBody
    /\ event.returned

RECURSIVE TextOf(_, _)
\* The text of the first n tokens of body.
TextOf(body, n) == IF n = 0 THEN "" ELSE TextOf(body, n - 1) \o body[n]

\* The number of tokens of body before its first line break.
BeforeNewline(body) ==
    Cardinality({k \in 1..Len(body) : \A j \in 1..k : body[j] # "\n"})

\* C16 as stated: the detail of the status error is exactly the bytes of the
\* body before the first newline, the empty string for an empty body.
C16_DetailIsBytesBeforeNewline ==
    (BadStatus /\ event.returned)
        => event.err.about = TextOf(event.response.Body, BeforeNewline(event.response.Body))

\* C16 as amended: the detail of the status error is the first line of the
\* body as bufio.ScanLines yields it: the bytes before the first newline (all
\* of the body when it has none) without one trailing carriage return, when
\* that line is within the scanner's 64 KiB limit; the empty string when the
\* body is empty or the line is beyond the limit. The call fails with the
\* status code in each case.
C16_DetailIsFirstScannedLine ==
    (BadStatus /\ event.returned)
        => LET body == event.response.Body
               n == BeforeNewline(body)
               m == IF n > 0 /\ body[n] = "\r" THEN n - 1 ELSE n
           IN /\ event.err.kind
                    = "bootstrap returned status code " \o ToString(event.response.StatusCode)
              /\ event.err.about
                    = IF \E k \in 1..n : body[k] = Oversized THEN "" ELSE TextOf(body, m)
              /\ body = <<"service unavailable", "\n", "extra">>
                    => event.err.about = "service unavailable"
              /\ body = <<>> => event.err.about = ""

\* C16 witness: a 503 with body "service unavailable\nextra" ended its call.
C16_Witness ==
    /\ BadStatus
    /\ event.returned
    /\ event.response.StatusCode = 503
    /\ event.response.Body = <<"service unavailable", "\n", "extra">>
    /\ event.err.about = "service unavailable"

\* The body of the response just handled encodes a bootstrap response.
ValidBody ==
    LET body == event.response.Body IN
    /\ Len(body) = 4
    /\ body[1] = "{" /\ body[2] = "status" /\ body[4] = "}"

\* C17: a 200 response whose body, read in full, encodes a bootstrap response
\* ends the call with a nil error and a response holding the body's field
\* value unaltered.
C17_DecodedBodyReturned ==
    (event.op = "decode" /\ event.response.StatusCode = 200 /\ ValidBody)
        => /\ event.returned
           /\ event.err = NoErr
           /\ event.resp = [nil |-> FALSE, status |-> event.response.Body[3]]
           /\ frames[event.call].pc = "done"

\* C17 witness: a call returned the response decoded from a 200 with status "ok".
C17_Witness ==
    /\ event.op = "decode"
    /\ event.response = [StatusCode |-> 200, Body |-> <<"{", "status", "ok", "}">>]
    /\ event.returned
    /\ event.resp.status = "ok"

\* C18: every return of QueryBootstrap carries either a response and a nil
\* error or no response and an error, never both and never neither, and
\* the call that returned is over.
C18_ResponseXorError ==
    event.returned
        => /\ \/ event.resp # NilResp /\ ~event.resp.nil /\ event.err = NoErr
              \/ event.resp = NilResp /\ event.err # NoErr
           /\ frames[event.call].pc = "done"

\* C18 witness: a call failed at the decoding of a 200 response that is not JSON.
C18_Witness ==
    /\ event.op = "decode"
    /\ event.returned
    /\ event.response.StatusCode = 200
    /\ event.resp = NilResp
    /\ event.err.kind = "json.SyntaxError"

\* The stage transitions of one call: transport ready (L93-L113), pre-flight
\* check (L117), request built (L128), authenticated (L141), submitted (L147),
\* status checked (L155), decoded (L166); "done" from every stage that can fail.
StageOrder ==
    {<<"idle", "L93">>, <<"L93", "L94">>, <<"L93", "L117">>, <<"L94", "L113">>,
     <<"L113", "L117">>, <<"L117", "L128">>, <<"L117", "done">>,
     <<"L128", "L141">>, <<"L128", "done">>, <<"L141", "L147">>, <<"L141", "done">>,
     <<"L147", "L155">>, <<"L147", "done">>, <<"L155", "L166">>, <<"L155", "done">>,
     <<"L166", "done">>}

\* C19: a call moves through its stages in the one order only; it submits
\* only with a transport in place, the request serialized and a token obtained
\* in that same call before; a step that returns an error ends the call, and
\* an ended call takes no further step and calls nothing more.
C19_StageOrder ==
    [][\A c \in Calls :
          /\ frames'[c].pc # frames[c].pc => <<frames[c].pc, frames'[c].pc>> \in StageOrder
          /\ frames[c].pc = "done" => frames'[c] = frames[c] /\ log'[c] = log[c]
          /\ (event'.returned /\ event'.call = c /\ event' # event) => frames'[c].pc = "done"
          /\ Len(log'[c]) > Len(log[c]) /\ log'[c][Len(log'[c])].op = "Do"
                => /\ frames[c].pc = "L147"
                   /\ httpClient # 0
                   /\ frames[c].reqBytes = Marshal(frames[c].req).bytes
                   /\ Marshal(frames[c].req).err = NoErr
                   /\ \E j \in 1..Len(log[c]) :
                         /\ log[c][j].op = "CreateToken"
                         /\ log[c][j].token # <<>>
                         /\ \A k \in (j + 1)..Len(log[c]) : log[c][k].op # "Do"
          /\ Len(log'[c]) > Len(log[c]) /\ log'[c][Len(log'[c])].op = "CreateToken"
                => frames[c].pc = "L141" /\ frames[c].reqBytes = Marshal(frames[c].req).bytes
          /\ Len(log'[c]) > Len(log[c]) /\ log'[c][Len(log'[c])].op = "LookupIP"
                => frames[c].pc = "L117" /\ httpClient # 0]_vars

\* C19 witness: a call that went through every stage returned its response.
C19_Witness ==
    /\ event.op = "decode"
    /\ event.returned
    /\ event.err = NoErr
    /\ LoggedAt(event.call, "CreateToken") # {}
    /\ LoggedAt(event.call, "Do") # {}
    /\ \A i \in LoggedAt(event.call, "CreateToken") :
          \A j \in LoggedAt(event.call, "Do") : i < j

\* ------------------------------------------------------------------ claims, cancellation
\* C20: once ctx is cancelled during a dial invocation, dial calls
\* net.DialTimeout for no further candidate, and the invocation returns no
\* connection and a cancellation error.
C20_CancelStopsDial ==
    /\ \A k \in 1..Len(dialer.attempts) : ~dialer.attempts[k].cancelled
    /\ (DialDone /\ dialer.ctxDone)
          => dialer.conn = NoConn /\ dialer.err.kind = "context canceled"

\* ------------------------------------------------------------------ claims, dialer errors
\* The target of the dial invocation has no colon, or more than one.
Unsplittable ==
    Cardinality({k \in 1..Len(dialer.addr) : dialer.addr[k] = ":"}) # 1

\* C24: a dial invocation whose target does not split into host and port
\* returns at its first step, with no connection and an error, the resolver
\* not called and net.DialTimeout not called; and while it has not returned
\* it has done neither.
C24_UnsplittableFailsAtOnce ==
    Unsplittable
        => /\ dialer.resolves = 0
           /\ dialer.attempts = <<>>
           /\ dialer.pc \in {"L62", "done"}
           /\ DialDone => /\ dialer.conn = NoConn
                          /\ dialer.err # NoErr
                          /\ dialer.err.kind = "cannot split host and port"

\* C24 witness: dial returned for the target "h", which has no port.
C24_Witness ==
    /\ DialDone
    /\ dialer.addr = <<"h">>
    /\ dialer.err.kind = "cannot split host and port"

\* The resolver was called and answered with an error.
ResolverFailed == dialer.resolves > 0 /\ dialer.answer.err # NoErr

\* C25: when the resolver answered with an error, dial has returned no
\* connection and that very error, and has called net.DialTimeout for nothing.
C25_ResolverErrorVerbatim ==
    ResolverFailed
        => /\ DialDone
           /\ dialer.conn = NoConn
           /\ dialer.err = dialer.answer.err
           /\ dialer.attempts = <<>>
           /\ dialer.resolves = 1

\* C25 witness: dial returned the resolver's "gossip lookup failed" error.
C25_Witness ==
    /\ DialDone
    /\ ResolverFailed
    /\ dialer.answer.err = [kind |-> "resolve", about |-> "gossip lookup failed"]
    /\ dialer.err.about = "gossip lookup failed"

\* ------------------------------------------------------------------ claims, failures
\* The kinds of error of a failed submission: *url.Error around a failure to
\* resolve or connect, a TLS failure or the client's timeout.
TransportErrorKinds ==
    {"url.Error: " \o k : k \in {"refused", "timeout", "tls", "resolve", "no addresses"}}

\* The latest step was a submission that got no response.
SubmissionFailed == event.op = "do" /\ event.response = NoResponse

\* C22: a call makes at most one net.LookupIP call, one CreateToken call and
\* one http.Client.Do call; a submission that fails at the network level is
\* not tried again: it ends the call with its error and no response.
C22_NoRetries ==
    /\ \A c \in Calls :
          /\ Cardinality(LoggedAt(c, "LookupIP")) <= 1
          /\ Cardinality(LoggedAt(c, "CreateToken")) <= 1
          /\ Cardinality(LoggedAt(c, "Do")) <= 1
          /\ Len(log[c]) <= 3
    /\ SubmissionFailed
          => /\ event.returned
             /\ event.resp = NilResp
             /\ event.err.kind \in TransportErrorKinds
             /\ frames[event.call].pc = "done"

\* C22 witness: a submission whose connection was refused ended its call,
\* after one lookup, one token and one Do.
C22_Witness ==
    /\ SubmissionFailed
    /\ event.returned
    /\ event.err.kind = "url.Error: refused"
    /\ Len(log[event.call]) = 3

\* The latest step read a 200 response's body in full and it does not decode.
UndecodableBody ==
    /\ event.op = "decode"
    /\ event.response.StatusCode = 200
    /\ ~ValidBody
    /\ event.response.Body # <<"{", "}">>

\* C26: a 200 response whose body does not decode ends the call with no
\* response and a JSON decoding error, which is none of the errors a failed
\* submission returns.
C26_DecodeErrorDistinct ==
    /\ UndecodableBody
          => /\ event.returned
             /\ event.resp = NilResp
             /\ event.err.kind = "json.SyntaxError"
             /\ event.err.kind \notin TransportErrorKinds
             /\ frames[event.call].pc = "done"
    /\ (event.op = "do" /\ event.returned) => event.err.kind \in TransportErrorKinds

\* C26 witness: a call failed on a 200 response with an HTML body.
C26_Witness ==
    /\ UndecodableBody
    /\ event.response.Body = <<"<html>">>
    /\ event.returned
    /\ event.err # NoErr

\* The pre-flight lookup of the latest step failed the check: a DNS error, or
\* a single placeholder address.
PreflightFailed == LookedUp /\ (event.lookup.err # NoErr \/ SinglePlaceholder)

\* C29: a failed pre-flight check ends the call at that step with an error;
\* the call has called neither CreateToken nor Do, its log holding the lookup
\* alone, and has built no request.
C29_PreflightFailureEndsCall ==
    PreflightFailed
        => /\ event.returned
           /\ event.err # NoErr
           /\ event.resp = NilResp
           /\ frames[event.call].pc = "done"
           /\ frames[event.call].httpReq = NoRequest
           /\ frames[event.call].reqBytes = <<>>
           /\ Len(log[event.call]) = 1
           /\ log[event.call][1].op = "LookupIP"

\* C29 witness: a call ended on a DNS timeout of its pre-flight lookup.
C29_Witness ==
    /\ PreflightFailed
    /\ event.lookup.err = DNSTimeout
    /\ event.returned
    /\ LoggedAt(event.call, "CreateToken") = {}

\* C30: with no resolver bound, a pre-flight lookup answering two or more
\* addresses lets the call go on to build its request, placeholders among
\* the addresses or not.
C30_SeveralAddressesPass ==
    (LookedUp /\ Resolver = NilResolver /\ event.lookup.err = NoErr /\ Len(event.lookup.ips) >= 2)
        => /\ ~event.returned
           /\ event.err = NoErr
           /\ frames[event.call].pc = "L128"

\* C30 witness: a call passed the check on an answer of the two placeholders.
C30_Witness ==
    /\ LookedUp
    /\ Resolver = NilResolver
    /\ Len(event.lookup.ips) = 2
    /\ \A k \in 1..2 : event.lookup.ips[k] \in PlaceholderAddrs
    /\ frames[event.call].pc = "L128"

\* ------------------------------------------------------------------ claims, client state
\* Goroutine c's call hands a request to http.Client.Do in this step.
Submits(c) == Len(log'[c]) > Len(log[c]) /\ log'[c][Len(log'[c])].op = "Do"

\* C28: no step changes b.BaseURL, and every request a call submits, the
\* first call's or a later one's, is a POST to the path of b.BaseURL with the
\* one segment "bootstrap" after it.
C28_EndpointImmutable ==
    [][/\ BaseURL' = BaseURL
       /\ \A c \in Calls :
             Submits(c)
                => /\ frames[c].httpReq.Method = "POST"
                   /\ frames[c].httpReq.Host = BaseURL.Host
                   /\ frames[c].httpReq.Path = BaseURL.Path \o <<"bootstrap">>
                   /\ frames[c].httpReq.Path = <<"v1", "bootstrap">>]_vars

\* C28 witness: a call has submitted to /v1/bootstrap after an earlier call
\* had submitted its own request, b.BaseURL still holding the path /v1.
C28_Witness ==
    /\ event.op = "do"
    /\ frames[event.call].pc = "L155"
    /\ frames[event.call].httpReq.Path = <<"v1", "bootstrap">>
    /\ BaseURL.Path = <<"v1">>
    /\ \E d \in Calls : d # event.call /\ frames[d].pc = "done" /\ LoggedAt(d, "Do") # {}

CancelledBeforeLookup(c) ==
    \E i \in LoggedAt(c, "ctx.Done") : \E j \in LoggedAt(c, "LookupIP") : i < j

\* C21: with no resolver bound, a call whose ctx was cancelled before the
\* pre-flight lookup never calls CreateToken, and its sanity check ends it
\* with a cancellation error, not with a not-ready error.
C21_CancelledLookupAborts ==
    \A c \in Calls :
        (Resolver = NilResolver /\ CancelledBeforeLookup(c))
            => /\ LoggedAt(c, "CreateToken") = {}
               /\ (event.op = "sanity" /\ event.call = c)
                     => /\ event.returned
                        /\ event.err.kind = "context canceled"

\* C27: a call's submission dials through b.dial exactly when the call made
\* no pre-flight lookup, and no call ends in the nil dereference of b.dial
\* calling an unbound resolver.
C27_DialerIffCheckSkipped ==
    /\ event.op = "do"
          => (event.via = CustomDial <=> LoggedAt(event.call, "LookupIP") = {})
    /\ \A c \in Calls : frames[c].pc # "panic"

\* ------------------------------------------------------------------ claims, every call
\* Goroutine c's call is past the sanity check of lines 116-126.
PastSanityCheck(c) == frames[c].pc \in {"L128", "L141", "L147", "L155", "L166"}

\* C31: with no resolver bound, every call makes the pre-flight lookup, the
\* first call and any call after the http.Client was built alike: a call past
\* the check has made the one lookup as its first call to the outside, and
\* each sanity check looks up and ends its call or not by that answer alone.
C31_PreflightOnEveryCall ==
    Resolver = NilResolver
        => /\ \A c \in Calls :
                 PastSanityCheck(c) => LoggedAt(c, "LookupIP") = {1}
           /\ event.op = "sanity"
                 => /\ event.looked
                    /\ event.returned <=> (event.lookup.err # NoErr \/ SinglePlaceholder)
                    /\ event.returned => frames[event.call].pc = "done"

\* C31 witness: a call failed not-ready at its pre-flight check although the
\* http.Client was built and an earlier call had passed its own check and
\* submitted its request.
C31_Witness ==
    /\ event.op = "sanity"
    /\ ReturnedNotReady
    /\ httpClient = 1
    /\ \E d \in Calls :
          /\ d # event.call
          /\ frames[d].pc = "done"
          /\ LoggedAt(d, "LookupIP") = {1}
          /\ LoggedAt(d, "Do") # {}

\* C32: however the calls interleave, a call that has got past line 113 or
\* found b.httpClient set at line 93 finds it set from then on: b.httpClient
\* holds one of the clients built, every submission goes through one of
\* them, and no call ends in a nil dereference.
C32_TransportNeverNil ==
    /\ \A c \in Calls :
          /\ frames[c].pc \in {"L117", "L128", "L141", "L147", "L155", "L166"}
                => httpClient \in 1..Len(clients)
          /\ frames[c].pc # "panic"
          /\ \A k \in LoggedAt(c, "Do") : log[c][k].client \in 1..Len(clients)
    /\ event.op # "nil dereference"
    /\ event.op = "do" => event.client \in 1..Len(clients)

\* C32 witness: two calls raced to build the http.Client, and a call
\* submitted through the one b.httpClient held at that time.
C32_Witness ==
    /\ event.op = "do"
    /\ Len(clients) = 2
    /\ event.client = httpClient
    /\ httpClient # 0

\* ------------------------------------------------------------------ claims, response body
\* C33: a call that got a response from http.Client.Do holds the deferred
\* Close of its body until it returns, and each of its returns, on a status
\* other than 200, on a failed read, on a body that does not decode and on
\* success, closes the body; a submission that fails hands back no response
\* and nothing is deferred or closed.
C33_BodyClosedOnReturn ==
    /\ \A c \in Calls :
          /\ frames[c].pc \in {"L155", "L166"} => frames[c].deferClose
          /\ frames[c].pc \notin {"L155", "L166"} => ~frames[c].deferClose
    /\ (event.returned /\ event.op \in {"status", "read", "decode"})
          => /\ event.response.StatusCode # 0
             /\ event.closed
    /\ (event.returned /\ event.op = "do")
          => /\ event.response = NoResponse
             /\ ~event.closed
             /\ frames[event.call] = Frame("done")

\* C33 witness: a call returned on a 503 and closed the body of the response.
C33_Witness ==
    /\ event.op = "status"
    /\ event.returned
    /\ event.response.StatusCode = 503
    /\ event.closed

\* ------------------------------------------------------------------ claims, termination
\* C34: a dial invocation whose resolver call and dial attempts each end
\* returns, and on the way it calls the resolver at most once and dials at
\* most as many times as the resolver listed candidates.
C34_DialTerminates ==
    /\ <>DialDone
    /\ [](/\ dialer.resolves <= 1
          /\ Len(dialer.attempts) <= Len(dialer.answer.addrs)
          /\ Len(dialer.attempts) <= MaxAddrs)

\* C34 witness: the invocation returned after one resolver call and a dial
\* to each of the candidates, the last of which ran into its timeout.
C34_Witness ==
    /\ DialDone
    /\ dialer.resolves = 1
    /\ Len(dialer.answer.addrs) = MaxAddrs
    /\ Len(dialer.attempts) = Len(dialer.answer.addrs)
    /\ dialer.attempts[Len(dialer.attempts)].outcome = "timeout"

\* ------------------------------------------------------------------ claims, package iam
\* The call of package iam has returned.
IAMDone(fn) == iam.pc = "done" /\ iam.fn = fn
\* The kind of subject each known instance-group role stands for.
KindOfRole ==
    [r \in {InstanceGroupRoleControlPlane, InstanceGroupRoleAPIServer,
            InstanceGroupRoleNode, InstanceGroupRoleBastion} |->
        CASE r = InstanceGroupRoleControlPlane -> "NodeRoleMaster"
          [] r = InstanceGroupRoleAPIServer -> "NodeRoleAPIServer"
          [] r = InstanceGroupRoleNode -> "NodeRoleNode"
          [] r = InstanceGroupRoleBastion -> "NodeRoleBastion"]

\* C35: BuildNodeRoleSubject returns a non-nil subject of the matching kind
\* and a nil error for each of the four known roles, and a nil subject and an
\* error for any other role; ServiceAccount of a node-role subject is the
\* empty name and false, that of a GenericServiceAccount its own name and true.
C35_SubjectsByRole ==
    /\ IAMDone("BuildNodeRoleSubject")
          => IF iam.args.igRole \in DOMAIN KindOfRole
             THEN /\ iam.results.subject # NilSubject
                  /\ iam.results.subject.kind = KindOfRole[iam.args.igRole]
                  /\ iam.results.subject \in Subjects
                  /\ iam.results.err = NoErr
             ELSE /\ iam.results.subject = NilSubject
                  /\ iam.results.err # NoErr
    /\ IAMDone("ServiceAccount")
          => IF iam.args.subject.kind \in {KindOfRole[r] : r \in DOMAIN KindOfRole}
             THEN iam.results = [name |-> EmptyNamespacedName, ok |-> FALSE]
             ELSE /\ iam.args.subject.kind = "GenericServiceAccount"
                  /\ iam.results = [name |-> iam.args.subject.NamespacedName, ok |-> TRUE]

\* C35 witness: the bastion role gave a bastion subject.
C35_Witness ==
    /\ IAMDone("BuildNodeRoleSubject")
    /\ iam.args.igRole = InstanceGroupRoleBastion
    /\ iam.results.subject = NodeRoleBastion
    /\ iam.results.err = NoErr

\* The role was added to the pod spec without an error.
RoleAdded == IAMDone("AddServiceAccountRole") /\ iam.results.err = NoErr

\* C36: AddServiceAccountRole for a cloud provider other than AWS, or on AWS
\* when no role name can be derived, returns an error and the pod spec is as
\* it was; when it succeeds, an fsGroup the pod spec already had is kept.
C36_ErrorLeavesPodSpec ==
    IAMDone("AddServiceAccountRole")
        => /\ (\/ iam.args.context.cloudProvider # CloudProviderAWS
               \/ iam.args.context.roleName.err # NoErr)
                 => /\ iam.results.err # NoErr
                    /\ iam.results.podSpec = iam.args.podSpec
           /\ (/\ iam.results.err = NoErr
               /\ ~iam.args.podSpec.SecurityContext.nil
               /\ iam.args.podSpec.SecurityContext.FSGroup # Nil)
                 => iam.results.podSpec.SecurityContext = iam.args.podSpec.SecurityContext

\* C36 witness: the role was added to a pod spec of two containers whose
\* fsGroup was set to a group of its own, and the group is still there.
C36_Witness ==
    /\ RoleAdded
    /\ Len(iam.args.podSpec.Containers) = 2
    /\ iam.args.podSpec.SecurityContext = PodSecurityContext("2000")
    /\ iam.results.podSpec.SecurityContext.FSGroup = "2000"
    /\ Len(iam.results.podSpec.Volumes) = Len(iam.args.podSpec.Volumes) + 1

====
